---- MODULE Spec2Model ----
(***************************************************************************)
(* Verification model of the helper messaging layer                        *)
(* (src/src/helpers/messaging.rs): the Gateway event loop, the per-channel *)
(* MessageBuffer and the Mesh::receive side of the rendezvous.             *)
(*                                                                         *)
(* A payload is modelled as a token <<channel, record id, n>> naming the    *)
(* n-th envelope sent for that channel and record id, so that two          *)
(* envelopes never hold the same payload and a delivery can be traced back *)
(* to the envelope it came from.  The event loop never inspects a payload. *)
(* A one-shot channel is named <<channel, record id, n>> after the n-th    *)
(* call of Mesh::receive for that key and modelled by the state of its     *)
(* receiving end; its sending end is the name, held in a ReceiveRequest or *)
(* in a Requested buffer item.  The model ends at the result of            *)
(* `rx.await`; decoding the bytes is the codec's business.                 *)
(*                                                                         *)
(* Further down, each with a specification of its own: the step-tree       *)
(* parser (TreeSpec), the sharing test fixture (ShareSpec), the local      *)
(* arithmetic on malicious shares (MaliciousSpec), the bit-wise AND        *)
(* (BandSpec), the aggregated output row (RowSpec), the Curve25519 scalar  *)
(* field (FpSpec) and the reshare of an attribution input row              *)
(* (ReshareSpec).  CloseSpec is the gateway with its event loop scheduled  *)
(* fairly, for the end of the loop.                                        *)
(***************************************************************************)
EXTENDS Integers, Sequences, FiniteSets, TLC

\* ------------------------------------------------------------------ bounds
\* Envelopes the peers send in one run.
MaxMsgs == 2
\* Calls of Mesh::receive in one run.
MaxReqs == 2
\* Envelopes in one batch of the message stream.
MaxBatch == 2

\* Capacity of the receive-request channel, mpsc::channel(1).
RxCapacity == 1

\* ------------------------------------------------------------ value domains
Identities == {"H2", "H3"}
Steps == {"step"}
RecordIds == {0, 1}

\* ChannelId::new(identity, step)
ChannelId(identity, step) == <<identity, step>>

ChannelIds == {ChannelId(i, s) : i \in Identities, s \in Steps}

NoPanic == "none"
MoreThanOneRequest == "More than one request to receive a message"
DuplicateMessage == "Duplicate message for the same record"

\* BufItem
Requested(s) == [tag |-> "Requested", val |-> s]
Received(payload) == [tag |-> "Received", val |-> payload]

\* MessageEnvelope
MessageEnvelope(record_id, payload) == [record_id |-> record_id, payload |-> payload]

\* ReceiveRequest
ReceiveRequest(channel_id, record_id, sender) ==
    [channel_id |-> channel_id, record_id |-> record_id, sender |-> sender]

\* --------------------------------------------------------------- hash maps
Remove(m, k) == [x \in DOMAIN m \ {k} |-> m[x]]
Insert(m, k, v) == [x \in DOMAIN m \cup {k} |-> IF x = k THEN v ELSE m[x]]
EmptyMap == [x \in {} |-> 0]

\* Variant of or_default with one MessageBuffer shared by all channels, as if
\* the buffers were keyed by record id alone.
or_default_shared(b, channel_id) ==
    IF DOMAIN b # {} THEN b[CHOOSE c \in DOMAIN b : TRUE] ELSE EmptyMap

\* buf.entry(channel_id).or_default(): the channel's MessageBuffer, created
\* empty on first contact.
or_default(b, channel_id) == IF channel_id \in DOMAIN b THEN b[channel_id] ELSE EmptyMap

VARIABLES
    buf,        \* HashMap<ChannelId, MessageBuffer> owned by the event loop
    rxq,        \* receive requests in the mpsc channel, oldest first
    netq,       \* batches in the network message stream, oldest first
    oneshot,    \* the one-shot channels created by Mesh::receive, by name
    loop,       \* "running", "panicked" or "terminated"
    fatal,      \* the panic message of the event loop, NoPanic if none
    txOpen,     \* some Gateway or Mesh still holds a sender of the mpsc channel
    netOpen,    \* the network message stream has not ended
    envelopes,  \* history: number of envelopes sent so far per channel and record id
    log,        \* history: every one-shot send of the event loop, in order
    trace       \* the tracing::trace! line of the last event handled

\* The state of the other components of the repository, each modelled by a
\* specification of its own further down; the gateway leaves it alone.
VARIABLES
    parser,     \* the step-tree parser: input file, tree under construction, grouping
    sharing,    \* the sharing test fixture and the local arithmetic on shares
    band,       \* one call of bool_and_8_bit
    row,        \* one MCAggregateCreditOutputRow and its serialization buffer
    fp,         \* one Fp25519 element: sampled, then inverted
    resharing   \* one call of Resharable::reshare on an attribution input row

aux == <<parser, sharing, band, row, fp, resharing>>

Idle == [pc |-> "idle"]

\* The other components before any of them has run.
AuxIdle ==
    /\ parser = Idle
    /\ sharing = Idle
    /\ band = Idle
    /\ row = Idle
    /\ fp = Idle
    /\ resharing = Idle

gateway == <<buf, rxq, netq, oneshot, loop, fatal, txOpen, netOpen,
             envelopes, log, trace>>

vars == <<buf, rxq, netq, oneshot, loop, fatal, txOpen, netOpen,
          envelopes, log, trace, aux>>

\* The one-shot channels created so far for a channel and record id.
SinksOf(os, channel_id, record_id) ==
    {s \in DOMAIN os : s[1] = channel_id /\ s[2] = record_id}

RECURSIVE SumOver(_, _)
SumOver(f, S) ==
    IF S = {} THEN 0 ELSE LET x == CHOOSE y \in S : TRUE IN f[x] + SumOver(f, S \ {x})

EnvelopesSent == SumOver(envelopes, DOMAIN envelopes)

NoPayload == <<>>

\* ------------------------------------------------------- one-shot channels
\* Variant of oneshot_send that unwraps the result of the send, so that a
\* dropped receiver panics the event loop.
oneshot_send_unwrap(g, s, payload) ==
    LET entry(ok) == [ev |-> g.ev, sink |-> s, payload |-> payload, ok |-> ok]
    IN  IF g.oneshot[s].st = "pending"
        THEN [g EXCEPT !.oneshot[s].st = "delivered",
                       !.oneshot[s].payload = payload,
                       !.log = Append(@, entry(TRUE))]
        ELSE [g EXCEPT !.fatal = "unwrap of a failed send"]

\* s.send(payload).unwrap_or_else(|_| tracing::warn!(..)): the payload goes
\* to a live receiver; with the receiver gone the send fails, a warning is
\* logged and the payload is discarded.  The log entry keeps the event being
\* handled (ev), the channel, the payload and whether the send succeeded.
oneshot_send(g, s, payload) ==
    LET entry(ok) == [ev |-> g.ev, sink |-> s, payload |-> payload, ok |-> ok]
    IN  IF g.oneshot[s].st = "pending"
        THEN [g EXCEPT !.oneshot[s].st = "delivered",
                       !.oneshot[s].payload = payload,
                       !.log = Append(@, entry(TRUE))]
        ELSE [g EXCEPT !.log = Append(@, entry(FALSE))]

\* Dropping a set of senders: a receiver still waiting gets a RecvError.
DropSenders(os, S) ==
    [s \in DOMAIN os |->
        IF s \in S /\ os[s].st = "pending" THEN [os[s] EXCEPT !.st = "closed"] ELSE os[s]]

\* Senders held inside the event loop task: in the buffers and in the queue.
SendersHeld(b, q) ==
    {b[x[1]][x[2]].val : x \in {y \in ((DOMAIN b) \X RecordIds) :
                        y[2] \in DOMAIN b[y[1]] /\ b[y[1]][y[2]].tag = "Requested"}}
    \cup {q[i].sender : i \in DOMAIN q}

\* ------------------------------------------------------------ MessageBuffer
\* g is the part of the state a MessageBuffer method can touch: the buffer
\* itself (mb), the one-shot channels, the log and the panic message.

\* Variant of receive_request that hands over a buffered payload without
\* removing its entry.
receive_request_keep(g, record_id, s) ==
    IF record_id \in DOMAIN g.mb
    THEN LET item == g.mb[record_id]
             removed == [g EXCEPT !.mb = Remove(g.mb, record_id)]
         IN  IF item.tag = "Requested"
             THEN [removed EXCEPT !.fatal = MoreThanOneRequest]
             ELSE oneshot_send(g, s, item.val)
    ELSE [g EXCEPT !.mb = Insert(g.mb, record_id, Requested(s))]

\* Variant of receive_request that forgets a request it cannot serve at once.
receive_request_forget(g, record_id, s) ==
    IF record_id \in DOMAIN g.mb
    THEN LET item == g.mb[record_id]
             removed == [g EXCEPT !.mb = Remove(g.mb, record_id)]
         IN  IF item.tag = "Requested"
             THEN [removed EXCEPT !.fatal = MoreThanOneRequest]
             ELSE oneshot_send(removed, s, item.val)
    ELSE g

\* Variant of receive_request in which a later request replaces a waiting one.
receive_request_replace(g, record_id, s) ==
    IF record_id \in DOMAIN g.mb
    THEN LET item == g.mb[record_id]
             removed == [g EXCEPT !.mb = Remove(g.mb, record_id)]
         IN  IF item.tag = "Requested"
             THEN [g EXCEPT !.mb = Insert(g.mb, record_id, Requested(s))]
             ELSE oneshot_send(removed, s, item.val)
    ELSE [g EXCEPT !.mb = Insert(g.mb, record_id, Requested(s))]

\* Variant of receive_request that serves a request with the oldest buffered
\* payload of the channel, whatever its record id.
receive_request_fifo(g, record_id, s) ==
    LET received == {r \in DOMAIN g.mb : g.mb[r].tag = "Received"}
    IN  IF received # {}
        THEN LET r == CHOOSE x \in received : \A y \in received : x <= y
             IN  oneshot_send([g EXCEPT !.mb = Remove(g.mb, r)], s, g.mb[r].val)
        ELSE IF record_id \in DOMAIN g.mb
             THEN [g EXCEPT !.mb = Remove(g.mb, record_id), !.fatal = MoreThanOneRequest]
             ELSE [g EXCEPT !.mb = Insert(g.mb, record_id, Requested(s))]

\* Variant of receive_request that lets a new request take over the slot of
\* a request whose caller has been dropped.
receive_request_reuse(g, record_id, s) ==
    IF record_id \in DOMAIN g.mb
    THEN LET item == g.mb[record_id]
             removed == [g EXCEPT !.mb = Remove(g.mb, record_id)]
         IN  IF item.tag = "Requested"
             THEN IF g.oneshot[item.val].st = "cancelled"
                  THEN [g EXCEPT !.mb = Insert(g.mb, record_id, Requested(s))]
                  ELSE [removed EXCEPT !.fatal = MoreThanOneRequest]
             ELSE oneshot_send(removed, s, item.val)
    ELSE [g EXCEPT !.mb = Insert(g.mb, record_id, Requested(s))]

\* MessageBuffer::receive_request
receive_request(g, record_id, s) ==
    IF record_id \in DOMAIN g.mb
    THEN LET item == g.mb[record_id]
             removed == [g EXCEPT !.mb = Remove(g.mb, record_id)]
         IN  IF item.tag = "Requested"
             THEN [removed EXCEPT !.fatal = MoreThanOneRequest]
             ELSE oneshot_send(removed, s, item.val)
    ELSE [g EXCEPT !.mb = Insert(g.mb, record_id, Requested(s))]

\* Variant of receive_message that removes a waiting request without sending
\* it the payload.
receive_message_lose(g, msg) ==
    IF msg.record_id \in DOMAIN g.mb
    THEN LET item == g.mb[msg.record_id]
             removed == [g EXCEPT !.mb = Remove(g.mb, msg.record_id)]
         IN  IF item.tag = "Requested"
             THEN removed
             ELSE [removed EXCEPT !.fatal = DuplicateMessage]
    ELSE [g EXCEPT !.mb = Insert(g.mb, msg.record_id, Received(msg.payload))]

\* Variant of receive_message that drops a payload nobody has asked for yet.
receive_message_forget(g, msg) ==
    IF msg.record_id \in DOMAIN g.mb
    THEN LET item == g.mb[msg.record_id]
             removed == [g EXCEPT !.mb = Remove(g.mb, msg.record_id)]
         IN  IF item.tag = "Requested"
             THEN oneshot_send(removed, item.val, msg.payload)
             ELSE [removed EXCEPT !.fatal = DuplicateMessage]
    ELSE g

\* Variant of receive_message in which a later payload replaces a buffered one.
receive_message_overwrite(g, msg) ==
    IF msg.record_id \in DOMAIN g.mb
    THEN LET item == g.mb[msg.record_id]
             removed == [g EXCEPT !.mb = Remove(g.mb, msg.record_id)]
         IN  IF item.tag = "Requested"
             THEN oneshot_send(removed, item.val, msg.payload)
             ELSE [g EXCEPT !.mb = Insert(g.mb, msg.record_id, Received(msg.payload))]
    ELSE [g EXCEPT !.mb = Insert(g.mb, msg.record_id, Received(msg.payload))]

\* MessageBuffer::receive_message
receive_message(g, msg) ==
    IF msg.record_id \in DOMAIN g.mb
    THEN LET item == g.mb[msg.record_id]
             removed == [g EXCEPT !.mb = Remove(g.mb, msg.record_id)]
         IN  IF item.tag = "Requested"
             THEN oneshot_send(removed, item.val, msg.payload)
             ELSE [removed EXCEPT !.fatal = DuplicateMessage]
    ELSE [g EXCEPT !.mb = Insert(g.mb, msg.record_id, Received(msg.payload))]

\* MessageBuffer::receive_messages: the batch in order; a panic ends it.
RECURSIVE receive_messages(_, _)
receive_messages(g, msgs) ==
    IF msgs = <<>> \/ g.fatal # NoPanic
    THEN g
    ELSE receive_messages(receive_message(g, Head(msgs)), Tail(msgs))

\* ---------------------------------------------------------------- Init
\* The gateway as Gateway::new leaves it.
GatewayInit ==
    /\ buf = EmptyMap
    /\ rxq = <<>>
    /\ netq = <<>>
    /\ oneshot = EmptyMap
    /\ loop = "running"
    /\ fatal = NoPanic
    /\ txOpen = TRUE
    /\ netOpen = TRUE
    /\ envelopes = [k \in ChannelIds \X RecordIds |-> 0]
    /\ log = <<>>
    /\ trace = [ev |-> "none", n |-> 0]

Init ==
    /\ GatewayInit
    /\ AuxIdle

\* The view of the state handed to a MessageBuffer method for one channel
\* while the event loop handles event ev ("new" request, "received" batch).
View(channel_id, ev) ==
    [mb |-> or_default(buf, channel_id), oneshot |-> oneshot,
     log |-> log, fatal |-> NoPanic, ev |-> ev]

\* What the event loop task leaves behind after handling one event with
\* result g on channel_id, the queues being q and n after the event was taken.
\* A panic unwinds the task: the buffers, the request queue and the message
\* stream are dropped, and with them every sender they hold: those the
\* buffers held before the event, those queued, and the one of the request
\* being handled (extra).
Commit(channel_id, g, q, n, extra) ==
    /\ log' = g.log
    /\ fatal' = g.fatal
    /\ IF g.fatal = NoPanic
       THEN /\ buf' = Insert(buf, channel_id, g.mb)
            /\ oneshot' = g.oneshot
            /\ rxq' = q
            /\ netq' = n
            /\ loop' = "running"
       ELSE /\ buf' = EmptyMap
            /\ oneshot' = DropSenders(g.oneshot, SendersHeld(buf, q) \cup extra)
            /\ rxq' = <<>>
            /\ netq' = <<>>
            /\ loop' = "panicked"
    /\ UNCHANGED <<txOpen, netOpen, envelopes>>
    /\ UNCHANGED aux

\* select! branch 1: Some(receive_request) = receive_rx.recv()
LoopReceiveRequest ==
    /\ loop = "running"
    /\ rxq # <<>>
    /\ LET req == Head(rxq)
           g == receive_request(View(req.channel_id, "new"), req.record_id, req.sender)
       IN  /\ trace' = [ev |-> "new", n |-> 1]
           /\ Commit(req.channel_id, g, Tail(rxq), netq, {req.sender})

\* select! branch 2: Some((channel_id, messages)) = message_stream.next()
LoopReceiveMessages ==
    /\ loop = "running"
    /\ netq # <<>>
    /\ LET channel_id == Head(netq)[1]
           messages == Head(netq)[2]
           g == receive_messages(View(channel_id, "received"), messages)
       IN  /\ trace' = [ev |-> "received", n |-> Len(messages)]
           /\ Commit(channel_id, g, rxq, Tail(netq), {})

\* Variant of the else branch that ends the loop as soon as the message
\* stream has ended, whatever the state of the request channel.
LoopTerminate_on_stream_end ==
    /\ loop = "running"
    /\ ~netOpen /\ netq = <<>>
    /\ loop' = "terminated"
    /\ oneshot' = DropSenders(oneshot, SendersHeld(buf, rxq))
    /\ buf' = EmptyMap
    /\ rxq' = <<>>
    /\ UNCHANGED <<netq, fatal, txOpen, netOpen, envelopes, log, trace>>
    /\ UNCHANGED aux

\* select! else branch: both sources report None; the loop breaks and the task
\* ends, dropping its buffers.
LoopTerminate ==
    /\ loop = "running"
    /\ ~txOpen /\ rxq = <<>>
    /\ ~netOpen /\ netq = <<>>
    /\ loop' = "terminated"
    /\ oneshot' = DropSenders(oneshot, SendersHeld(buf, rxq))
    /\ buf' = EmptyMap
    /\ UNCHANGED <<rxq, netq, fatal, txOpen, netOpen, envelopes, log, trace>>
    /\ UNCHANGED aux

\* Mesh::receive up to the end of gateway_tx.send(..).await: a fresh one-shot
\* channel whose sender goes into the request queue once it has capacity.
\* With the event loop gone the send fails and receive returns the error.
Receive(source, step, record_id) ==
    /\ txOpen
    /\ Cardinality(DOMAIN oneshot) < MaxReqs
    /\ LET channel_id == ChannelId(source, step)
           s == <<channel_id, record_id, 1 + Cardinality(SinksOf(oneshot, channel_id, record_id))>>
           rx(st) == [st |-> st, payload |-> NoPayload]
       IN  IF loop = "running"
           THEN /\ Len(rxq) < RxCapacity
                /\ rxq' = Append(rxq, ReceiveRequest(channel_id, record_id, s))
                /\ oneshot' = Insert(oneshot, s, rx("pending"))
           ELSE /\ rxq' = rxq
                /\ oneshot' = Insert(oneshot, s, rx("send_failed"))
    /\ UNCHANGED <<buf, netq, loop, fatal, txOpen, netOpen, envelopes, log, trace>>
    /\ UNCHANGED aux

\* The future of Mesh::receive is dropped while it awaits rx.
Cancel(s) ==
    /\ s \in DOMAIN oneshot
    /\ oneshot[s].st = "pending"
    /\ oneshot' = [oneshot EXCEPT ![s].st = "cancelled"]
    /\ UNCHANGED <<buf, rxq, netq, loop, fatal, txOpen, netOpen, envelopes, log, trace>>
    /\ UNCHANGED aux

\* The Gateway and every Mesh borrowed from it are dropped.  A pending receive
\* borrows its Mesh, so it is dropped first.  Once the event loop task has
\* ended nothing observes the senders any more.
GatewayDrop ==
    /\ txOpen
    /\ loop = "running"
    /\ txOpen' = FALSE
    /\ oneshot' = [s \in DOMAIN oneshot |->
                      IF oneshot[s].st = "pending"
                      THEN [oneshot[s] EXCEPT !.st = "cancelled"] ELSE oneshot[s]]
    /\ UNCHANGED <<buf, rxq, netq, loop, fatal, netOpen, envelopes, log, trace>>
    /\ UNCHANGED aux

\* The network yields one batch of envelopes for a channel: Network::message_stream.
NetSend(channel_id, records) ==
    /\ netOpen
    /\ loop = "running"
    /\ LET nth(i) == envelopes[<<channel_id, records[i]>>]
                        + Cardinality({j \in 1..i : records[j] = records[i]})
           messages == [i \in DOMAIN records |->
                           MessageEnvelope(records[i], <<channel_id, records[i], nth(i)>>)]
       IN  /\ netq' = Append(netq, <<channel_id, messages>>)
           /\ envelopes' = [k \in DOMAIN envelopes |->
                               envelopes[k] + Cardinality({j \in DOMAIN records :
                                                  k = <<channel_id, records[j]>>})]
    /\ UNCHANGED <<buf, rxq, oneshot, loop, fatal, txOpen, netOpen, log, trace>>
    /\ UNCHANGED aux

\* The network message stream ends (transport failure or shutdown).  The
\* stream is owned by the event loop task and is gone when the task has ended.
NetClose ==
    /\ netOpen
    /\ loop = "running"
    /\ netOpen' = FALSE
    /\ UNCHANGED <<buf, rxq, netq, oneshot, loop, fatal, txOpen, envelopes, log, trace>>
    /\ UNCHANGED aux

\* The batches of at most MaxBatch envelopes that fit in what is left of MaxMsgs.
Batches(left) == UNION {[1..n -> RecordIds] : n \in 1..(IF left < MaxBatch THEN left ELSE MaxBatch)}

CallReceive == \E i \in Identities, st \in Steps, r \in RecordIds : Receive(i, st, r)
CallCancel == \E s \in DOMAIN oneshot : Cancel(s)
NetDeliver ==
    /\ netOpen
    /\ loop = "running"
    /\ LET left == MaxMsgs - EnvelopesSent
       IN  \E c \in ChannelIds, b \in Batches(left) : NetSend(c, b)

Next ==
    \/ LoopReceiveRequest
    \/ LoopReceiveMessages
    \/ LoopTerminate
    \/ CallReceive
    \/ CallCancel
    \/ GatewayDrop
    \/ NetDeliver
    \/ NetClose

Spec == Init /\ [][Next]_vars

TypeOK ==
    /\ loop \in {"running", "panicked", "terminated"}
    /\ Len(rxq) <= RxCapacity
    /\ EnvelopesSent <= MaxMsgs
    /\ Cardinality(DOMAIN oneshot) <= MaxReqs

\* ------------------------------------------------------- rendezvous harness
\* The harness of the rendezvous properties: every key gets at most one
\* envelope and at most one receive request, in any order; nothing is
\* cancelled and neither source is closed.
Keys == ChannelIds \X RecordIds

HarnessReceive ==
    \E i \in Identities, st \in Steps, r \in RecordIds :
        /\ SinksOf(oneshot, ChannelId(i, st), r) = {}
        /\ Receive(i, st, r)

HarnessDeliver ==
    /\ netOpen
    /\ loop = "running"
    /\ LET left == MaxMsgs - EnvelopesSent
       IN  \E c \in ChannelIds, b \in Batches(left) :
               /\ \A i \in DOMAIN b : envelopes[<<c, b[i]>>] = 0
               /\ \A i, j \in DOMAIN b : b[i] = b[j] => i = j
               /\ NetSend(c, b)

HarnessNext ==
    \/ LoopReceiveRequest
    \/ LoopReceiveMessages
    \/ HarnessReceive
    \/ HarnessDeliver

\* tokio::select! picks among its ready branches at random, so neither a
\* queued request nor a queued batch is passed over forever.
LiveSpec ==
    /\ Init
    /\ [][HarnessNext]_vars
    /\ WF_vars(LoopReceiveRequest)
    /\ WF_vars(LoopReceiveMessages)

\* ------------------------------------------------------------------ claims
\* The payload of the n-th envelope sent for key k.
Payload(k, n) == <<k[1], k[2], n>>

\* The key a one-shot channel was created for.
KeyOf(s) == <<s[1], s[2]>>

\* An envelope for key k has been handed to the message stream.
MessageIssued(k) == envelopes[k] > 0

\* Mesh::receive has been called for key k.
RequestIssued(k) == SinksOf(oneshot, k[1], k[2]) # {}

\* The receive for key k has completed with the payload of k's envelope.
Completed(k) ==
    \E s \in SinksOf(oneshot, k[1], k[2]) :
        /\ oneshot[s].st = "delivered"
        /\ oneshot[s].payload = Payload(k, 1)

\* The item the buffer holds for key k: its tag, or "absent".
SlotTag(b, k) ==
    IF k[1] \in DOMAIN b /\ k[2] \in DOMAIN b[k[1]] THEN b[k[1]][k[2]].tag ELSE "absent"

SlotVal(b, k) == b[k[1]][k[2]].val

\* C1: under the harness (one envelope and one receive request per key, in
\* any interleaving) and a fair event loop, the receive of every key that
\* has got both its envelope and its request eventually completes with that
\* envelope's payload.
C1_RendezvousLiveness ==
    \A k \in Keys : (MessageIssued(k) /\ RequestIssued(k)) ~> Completed(k)

\* Two receives on different channels with the same record id have completed.
C1_Witness ==
    \E k1, k2 \in Keys :
        /\ k1[1] # k2[1] /\ k1[2] = k2[2]
        /\ Completed(k1) /\ Completed(k2)

\* The successful sends of the log.
Deliveries == SelectSeq(log, LAMBDA e : e.ok)

\* C2: every payload handed to the delivery sink of a receive request comes
\* from an envelope that arrived on the request's channel with the request's
\* record id; no payload goes to two sinks and no sink gets two payloads.
C2_ExactlyOnceMatching ==
    /\ \A i \in DOMAIN log :
          /\ log[i].sink \in DOMAIN oneshot
          /\ KeyOf(log[i].payload) = KeyOf(log[i].sink)
          /\ log[i].payload[3] \in 1..envelopes[KeyOf(log[i].payload)]
          /\ log[i].ok => /\ oneshot[log[i].sink].st = "delivered"
                          /\ oneshot[log[i].sink].payload = log[i].payload
    /\ \A i, j \in DOMAIN log :
          i # j => /\ log[i].sink # log[j].sink
                   /\ log[i].payload # log[j].payload
    /\ \A s \in DOMAIN oneshot :
          oneshot[s].st = "delivered" =>
              \E i \in DOMAIN log : log[i].ok /\ log[i].sink = s

\* Two channels used the same record id and each sink got its own channel's payload.
C2_Witness ==
    /\ Len(Deliveries) = 2
    /\ Deliveries[1].sink[1] # Deliveries[2].sink[1]
    /\ Deliveries[1].sink[2] = Deliveries[2].sink[2]

\* Every issued key has had both its envelope and its request handled.
Quiescent ==
    /\ rxq = <<>>
    /\ netq = <<>>
    /\ \A k \in Keys : MessageIssued(k) <=> RequestIssued(k)

\* C3: under the harness, once every issued key has had both its envelope
\* and its receive request handled, no channel buffer holds an item.
C3_QuiescentBufferEmpty ==
    Quiescent => \A k \in Keys : SlotTag(buf, k) = "absent"

\* Quiescence after two rendezvous, one on each side of a buffer.
C3_Witness ==
    /\ Quiescent
    /\ Len(Deliveries) = 2
    /\ DOMAIN buf # {}

\* Key k has been consumed: a request got its payload and the slot was removed.
Consumed(k) == \E i \in DOMAIN log : log[i].ok /\ KeyOf(log[i].sink) = k

\* The key of the oldest queued receive request.
HeadRequestKey == <<Head(rxq).channel_id, Head(rxq).record_id>>

\* The first envelope of the oldest queued batch, and its key.
HeadMessage == Head(Head(netq)[2])
HeadMessageKey == <<Head(netq)[1], HeadMessage.record_id>>

\* The event loop is about to handle a request for a consumed key.
RequestForConsumedKey ==
    /\ loop = "running"
    /\ rxq # <<>>
    /\ Consumed(HeadRequestKey)

\* C4 as claimed: a second receive request for a consumed key is a fatal
\* error of the event loop.
C4_SecondRequestFatal ==
    [][(RequestForConsumedKey /\ LoopReceiveRequest) => loop' = "panicked"]_vars

\* C4 as amended: a second receive request for a consumed key is handled
\* like a first one; it finds the slot vacant after the rendezvous and is
\* stored as Requested, the loop keeps running, and it is fatal only when
\* the slot already holds a waiting request.
C4_SecondRequestStored ==
    [][(RequestForConsumedKey /\ LoopReceiveRequest) =>
          LET k == HeadRequestKey
              tag == SlotTag(buf, k)
          IN  /\ (loop' = "panicked") <=> (tag = "Requested")
              /\ tag = "absent" =>
                    /\ SlotTag(buf', k) = "Requested"
                    /\ SlotVal(buf', k) = Head(rxq).sender
                    /\ log' = log
                    /\ oneshot' = oneshot]_vars

\* The second receive request of a consumed key waits in the buffer.
C4_Witness ==
    \E k \in Keys :
        /\ Consumed(k)
        /\ loop = "running"
        /\ SlotTag(buf, k) = "Requested"
        /\ SlotVal(buf, k) = <<k[1], k[2], 2>>

\* The event loop is about to handle a batch that starts with an envelope
\* for a consumed key.
MessageForConsumedKey ==
    /\ loop = "running"
    /\ netq # <<>>
    /\ Consumed(HeadMessageKey)

\* C5 as claimed: a second envelope for a consumed key is a fatal error of
\* the event loop.
C5_SecondMessageFatal ==
    [][(MessageForConsumedKey /\ LoopReceiveMessages) => loop' = "panicked"]_vars

\* C5 as amended: a second envelope for a consumed key is handled like a
\* first one; it finds the slot vacant after the rendezvous and is stored as
\* Received, the loop keeps running, and it is fatal only when the slot
\* already holds a buffered payload.
C5_SecondMessageStored ==
    [][(MessageForConsumedKey /\ LoopReceiveMessages) =>
          LET k == HeadMessageKey
              tag == SlotTag(buf, k)
              alone == Len(Head(netq)[2]) = 1
          IN  /\ tag = "Received" => loop' = "panicked" /\ fatal' = DuplicateMessage
              /\ alone => ((loop' = "panicked") <=> (tag = "Received"))
              /\ (alone /\ tag = "absent") =>
                    /\ SlotTag(buf', k) = "Received"
                    /\ SlotVal(buf', k) = HeadMessage.payload
                    /\ log' = log
                    /\ oneshot' = oneshot]_vars

\* The second envelope of a consumed key waits in the buffer.
C5_Witness ==
    \E k \in Keys :
        /\ Consumed(k)
        /\ loop = "running"
        /\ SlotTag(buf, k) = "Received"
        /\ SlotVal(buf, k) = Payload(k, 2)

\* The event loop is about to handle a request whose slot holds a waiting request.
DuplicateRequest ==
    /\ loop = "running"
    /\ rxq # <<>>
    /\ SlotTag(buf, HeadRequestKey) = "Requested"

\* C6: a receive request that finds its slot in state Requested panics the
\* event loop with 'More than one request to receive a message', and neither
\* the waiting sink nor the new one is handed a payload.
C6_DuplicateRequestFatal ==
    [][(DuplicateRequest /\ LoopReceiveRequest) =>
          LET old == SlotVal(buf, HeadRequestKey)
              new == Head(rxq).sender
          IN  /\ loop' = "panicked"
              /\ fatal' = MoreThanOneRequest
              /\ log' = log
              /\ oneshot'[old].st \in {"closed", "cancelled"}
              /\ oneshot'[new].st \in {"closed", "cancelled"}
              /\ oneshot'[old].payload = NoPayload
              /\ oneshot'[new].payload = NoPayload]_vars

\* The loop has panicked on a duplicate request and both receives have failed.
C6_Witness ==
    /\ loop = "panicked"
    /\ fatal = MoreThanOneRequest
    /\ trace.ev = "new"
    /\ \E k \in Keys :
          /\ oneshot[<<k[1], k[2], 1>>].st = "closed"
          /\ oneshot[<<k[1], k[2], 2>>].st = "closed"

\* The event loop is about to handle a batch one of whose envelopes will find
\* its slot in state Received: the slot is Received already, or it is vacant
\* and the batch holds two envelopes for it.
DuplicateMessageAhead ==
    /\ loop = "running"
    /\ netq # <<>>
    /\ LET c == Head(netq)[1]
           msgs == Head(netq)[2]
       IN  \/ \E i \in DOMAIN msgs : SlotTag(buf, <<c, msgs[i].record_id>>) = "Received"
           \/ \E i, j \in DOMAIN msgs :
                 /\ i < j
                 /\ msgs[i].record_id = msgs[j].record_id
                 /\ SlotTag(buf, <<c, msgs[i].record_id>>) = "absent"

\* C7: an envelope that finds its slot in state Received panics the event
\* loop with 'Duplicate message for the same record', also when the two
\* envelopes come in one batch.
C7_DuplicateMessageFatal ==
    [][(DuplicateMessageAhead /\ LoopReceiveMessages) =>
          /\ loop' = "panicked"
          /\ fatal' = DuplicateMessage]_vars

\* The loop has panicked on a batch of two envelopes for one key, nothing else
\* having been sent or requested.
C7_Witness ==
    /\ loop = "panicked"
    /\ fatal = DuplicateMessage
    /\ trace = [ev |-> "received", n |-> 2]
    /\ EnvelopesSent = 2
    /\ \E k \in Keys : envelopes[k] = 2
    /\ oneshot = EmptyMap

\* The payloads still in the message stream.
InFlight == {netq[i][2][j].payload : <<i, j>> \in
                {x \in (DOMAIN netq) \X (1..MaxMsgs) : x[2] \in DOMAIN netq[x[1]][2]}}

\* The senders still in the request queue.
Queued == {rxq[i].sender : i \in DOMAIN rxq}

\* On channel c one envelope each for records r0 and r1 has been handled, one
\* receive request for r1 has been handled and not cancelled, and none for r0.
C8_Scenario(c, r0, r1) ==
    /\ r0 # r1
    /\ loop = "running"
    /\ envelopes[<<c, r0>>] = 1 /\ Payload(<<c, r0>>, 1) \notin InFlight
    /\ envelopes[<<c, r1>>] = 1 /\ Payload(<<c, r1>>, 1) \notin InFlight
    /\ SinksOf(oneshot, c, r0) \subseteq Queued
    /\ SinksOf(oneshot, c, r1) = {<<c, r1, 1>>}
    /\ <<c, r1, 1>> \notin Queued
    /\ oneshot[<<c, r1, 1>>].st # "cancelled"

\* C8: record ids of a channel are independent.  With envelopes for two
\* records handled and a single receive for one of them, that receive has
\* completed with its own record's payload, and the other record's payload
\* stays buffered as Received until a receive for it is handled.
C8_RecordsIndependent ==
    \A c \in ChannelIds, r0, r1 \in RecordIds :
        C8_Scenario(c, r0, r1) =>
            /\ oneshot[<<c, r1, 1>>].st = "delivered"
            /\ oneshot[<<c, r1, 1>>].payload = Payload(<<c, r1>>, 1)
            /\ SlotTag(buf, <<c, r1>>) = "absent"
            /\ SlotTag(buf, <<c, r0>>) = "Received"
            /\ SlotVal(buf, <<c, r0>>) = Payload(<<c, r0>>, 1)

\* Records 0 and 1 sent on one channel, record 1 received, record 0 not asked for.
C8_Witness ==
    \E c \in ChannelIds :
        /\ C8_Scenario(c, 0, 1)
        /\ SinksOf(oneshot, c, 0) = {}
        /\ oneshot[<<c, 1, 1>>].st = "delivered"

\* Whether handling batch msgs of channel c on buffers b ends in a panic: a
\* record's slot alternates between vacant and occupied with every envelope.
BatchPanics(b, c, msgs) ==
    \E r \in RecordIds :
        LET n == Cardinality({i \in DOMAIN msgs : msgs[i].record_id = r})
            tag == SlotTag(b, <<c, r>>)
        IN  \/ tag = "Received" /\ n >= 1
            \/ tag = "absent" /\ n >= 2
            \/ tag = "Requested" /\ n >= 3

\* The event loop is about to handle a batch that starts with the envelope
\* of a request whose caller has gone.
MessageForCancelled ==
    /\ loop = "running"
    /\ netq # <<>>
    /\ SlotTag(buf, HeadMessageKey) = "Requested"
    /\ oneshot[SlotVal(buf, HeadMessageKey)].st = "cancelled"

\* C9: an envelope that finds a Requested slot whose caller has been dropped
\* is discarded with a warning and the slot is removed; this does not panic
\* the loop, which keeps running unless another envelope of the same batch
\* is a duplicate.
C9_CancelledReceiveDiscarded ==
    [][(MessageForCancelled /\ LoopReceiveMessages) =>
          LET k == HeadMessageKey
              s == SlotVal(buf, k)
              msgs == Head(netq)[2]
          IN  /\ Len(log') > Len(log)
              /\ log'[Len(log) + 1] =
                     [ev |-> "received", sink |-> s, payload |-> HeadMessage.payload, ok |-> FALSE]
              /\ oneshot'[s] = oneshot[s]
              /\ (loop' = "running") <=> ~BatchPanics(buf, Head(netq)[1], msgs)
              /\ loop' = "panicked" => fatal' = DuplicateMessage
              /\ Len(msgs) = 1 =>
                    /\ loop' = "running"
                    /\ SlotTag(buf', k) = "absent"
                    /\ netq' = Tail(netq)
                    /\ rxq' = rxq]_vars

\* A payload was discarded for a cancelled receive, its slot is vacant, and
\* the loop went on to complete a later receive.
C9_Witness ==
    /\ loop = "running"
    /\ Len(log) = 2
    /\ log[1].ev = "received" /\ ~log[1].ok
    /\ oneshot[log[1].sink].st = "cancelled"
    /\ SlotTag(buf, KeyOf(log[1].sink)) = "absent"
    /\ log[2].ok

\* The network message stream has ended and nothing of it is left to handle.
StreamEnded == ~netOpen /\ netq = <<>>

\* The receive requests waiting in the buffers whose callers still wait.
Outstanding(b, os) == {s \in SendersHeld(b, <<>>) : os[s].st = "pending"}

\* C10 as claimed: once the message stream has failed, the event loop does
\* not leave a receive request outstanding: a request that was waiting in
\* the buffers before the loop's next step is no longer pending after it.
C10_TransportFailureFailsRequests ==
    [][(StreamEnded /\ loop = "running" /\ LoopReceiveRequest /\ loop' = "running") =>
          Outstanding(buf, oneshot) \cap Outstanding(buf', oneshot') = {}]_vars

\* The buffer slot of key k holds the sender of a receive whose caller has
\* been dropped.
CancelledSlot(b, os, k) ==
    /\ SlotTag(b, k) = "Requested"
    /\ os[SlotVal(b, k)].st = "cancelled"

\* The event loop is about to handle a receive request for key k.
RequestAtHead(k) ==
    /\ rxq # <<>>
    /\ Head(rxq).channel_id = k[1]
    /\ Head(rxq).record_id = k[2]

\* The event loop is about to handle a batch with an envelope for key k.
MessageInHeadBatch(k) ==
    /\ netq # <<>>
    /\ Head(netq)[1] = k[1]
    /\ \E i \in DOMAIN Head(netq)[2] : Head(netq)[2][i].record_id = k[2]

\* C23: a cancelled receive leaves its Requested slot in the buffer.  While
\* the event loop runs, the slot (with the same sender) is still there after
\* every step that does not handle an envelope for its key; a step that
\* handles a new receive request for the key panics the loop with the
\* duplicate-receive error.
C23_CancelledSlotStays ==
    [][\A k \in Keys :
          (loop = "running" /\ CancelledSlot(buf, oneshot, k)) =>
              /\ (LoopReceiveRequest /\ RequestAtHead(k)) =>
                    /\ loop' = "panicked"
                    /\ fatal' = MoreThanOneRequest
              /\ (loop' = "running" /\ ~(LoopReceiveMessages /\ MessageInHeadBatch(k))) =>
                    /\ CancelledSlot(buf', oneshot', k)
                    /\ SlotVal(buf', k) = SlotVal(buf, k)]_vars

\* A receive was cancelled, no envelope for its key ever arrived, and the
\* second receive for the key panicked the loop: the second caller got the
\* error of a dropped sender.
C23_Witness ==
    \E k \in Keys :
        /\ envelopes[k] = 0
        /\ <<k[1], k[2], 2>> \in DOMAIN oneshot
        /\ oneshot[<<k[1], k[2], 1>>].st = "cancelled"
        /\ oneshot[<<k[1], k[2], 2>>].st = "closed"
        /\ loop = "panicked"
        /\ fatal = MoreThanOneRequest

\* The network yields the envelope of a key that has had none, alone in its
\* batch.
CloseDeliver ==
    /\ netOpen
    /\ loop = "running"
    /\ EnvelopesSent < MaxMsgs
    /\ \E c \in ChannelIds, r \in RecordIds :
           /\ envelopes[<<c, r>>] = 0
           /\ NetSend(c, <<r>>)

\* The callers, the network and the owner of the Gateway around the event
\* loop: receives for any key, single envelopes, and the closing of either
\* source of the loop.
CloseNext ==
    \/ LoopReceiveRequest
    \/ LoopReceiveMessages
    \/ LoopTerminate
    \/ CallReceive
    \/ CloseDeliver
    \/ GatewayDrop
    \/ NetClose

\* The gateway under the scheduling of its event loop task: the task is
\* polled until it ends, and select! passes over no ready branch forever.
CloseSpec ==
    /\ Init
    /\ [][CloseNext]_vars
    /\ WF_vars(LoopReceiveRequest)
    /\ WF_vars(LoopReceiveMessages)
    /\ WF_vars(LoopTerminate)

\* Both sources of the event loop are closed: every sender of the request
\* channel is dropped and the message stream has ended.
BothClosed == ~txOpen /\ ~netOpen

\* C24: the event loop terminates if and only if both the request channel
\* and the message stream are closed: a terminated loop has both closed and
\* drained, and once both are closed the loop does not run on forever.  With
\* only the message stream ended, a queued receive request can be handled,
\* and no step of the running loop completes, fails or removes a request
\* that waits in the buffers: it fails only in a step that ends the loop
\* with the duplicate-receive panic, and the loop cannot terminate while a
\* caller still waits.
C24_TerminatesIffBothClosed ==
    /\ [](loop = "terminated" => (BothClosed /\ rxq = <<>> /\ netq = <<>>))
    /\ [][LoopTerminate => Outstanding(buf, oneshot) = {}]_vars
    /\ BothClosed ~> (loop # "running")
    /\ []((StreamEnded /\ txOpen /\ loop = "running" /\ rxq # <<>>) =>
             ENABLED LoopReceiveRequest)
    /\ [][(StreamEnded /\ loop = "running") =>
             \A s \in Outstanding(buf, oneshot) :
                /\ oneshot'[s].st \in {"pending", "cancelled", "closed"}
                /\ oneshot'[s].st = "closed" =>
                       (loop' = "panicked" /\ fatal' = MoreThanOneRequest)
                /\ loop' = "running" => s \in SendersHeld(buf', <<>>)]_vars

\* The message stream ended with the Gateway alive; the loop then accepted
\* a receive request for a key with nothing buffered, and the request is
\* still pending in the buffers of the running loop.
C24_Witness ==
    /\ StreamEnded
    /\ txOpen
    /\ loop = "running"
    /\ rxq = <<>>
    /\ EnvelopesSent = 0
    /\ trace = [ev |-> "new", n |-> 1]
    /\ \E s \in Outstanding(buf, oneshot) : TRUE

\* ========================================================================
\* The step-tree parser (src/ipa-macros/src/parser.rs).
\*
\* A string is a sequence of tokens: a module or step identifier, or one of
\* the separators "::", "/" and "\n".  The steps file is the string of its
\* lines, each ended by "\n".  The tree is an arena: a node is its position
\* in the sequence nodes, the root is node 1 and a parent of 0 is None.
\* ========================================================================

\* ------------------------------------------------------------------ bounds
\* Lines in the steps file.
MaxLines == 3
\* Segments in one line of the steps file.
MaxDepth == 2

ModuleNames == {"s", "t"}
StepNames == {"A"}

\* u16::MAX and u8::MAX, the widths of StepMetaData::id and ::depth.
U16Max == 65535
U8Max == 255

\* ----------------------------------------------------------------- strings
\* str.split(sep): the pieces between the occurrences of sep, in order; a
\* string without sep, the empty string included, is one piece.
RECURSIVE split(_, _)
split(str, sep) ==
    IF \A i \in DOMAIN str : str[i] # sep
    THEN <<str>>
    ELSE LET i == CHOOSE k \in DOMAIN str :
                      str[k] = sep /\ \A j \in 1..(k - 1) : str[j] # sep
         IN  <<SubSeq(str, 1, i - 1)>> \o split(SubSeq(str, i + 1, Len(str)), sep)

\* parts.join(sep)
RECURSIVE join(_, _)
join(parts, sep) ==
    IF parts = <<>> THEN <<>>
    ELSE IF Len(parts) = 1 THEN parts[1]
    ELSE parts[1] \o <<sep>> \o join(Tail(parts), sep)

\* contents.lines(): the pieces between line feeds; the line feed ending the
\* last line starts no further line.
lines(contents) ==
    LET pieces == split(contents, "\n")
    IN  IF pieces[Len(pieces)] = <<>> THEN SubSeq(pieces, 1, Len(pieces) - 1) ELSE pieces

\* ------------------------------------------------------------- steps files
Segments == {<<m, "::", n>> : m \in ModuleNames, n \in StepNames}

RECURSIVE PathsOfDepth(_)
PathsOfDepth(d) ==
    IF d = 1 THEN Segments
    ELSE {p \o <<"/">> \o s : p \in PathsOfDepth(d - 1), s \in Segments}

\* The lines a steps file is made of here: the empty line and the paths of
\* up to MaxDepth segments.
Lines == {<<>>} \cup UNION {PathsOfDepth(d) : d \in 1..MaxDepth}

\* The contents of the file the lines ls were written to.
RECURSIVE Contents(_)
Contents(ls) == IF ls = <<>> THEN <<>> ELSE ls[1] \o <<"\n">> \o Contents(Tail(ls))

\* The steps files, each as the sequence of the lines written to it.
Files == UNION {[1..n -> Lines] : n \in 0..MaxLines}

\* ------------------------------------------------------------ StepMetaData
StepMetaData(id, depth, module, name, path) ==
    [id |-> id, depth |-> depth, module |-> module, name |-> name, path |-> path]

\* The metadata of the synthetic root.
RootStep == StepMetaData(0, 0, <<"ipa">>, <<"root">>, <<"root">>)

\* split_step_module_and_name(input): <<module, name>>, the name being the
\* last "::"-component and the module the others joined again.
split_step_module_and_name(input) ==
    LET mod_parts == split(input, "::")
        substep_name == mod_parts[Len(mod_parts)]
        path == SubSeq(mod_parts, 1, Len(mod_parts) - 1)
    IN  <<join(path, "::"), substep_name>>

\* read_steps_file: the lines of the steps file.
read_steps_file(contents) == lines(contents)

\* Variant of step_id that numbers the lines from 0.
step_id_from_zero(i) == i

\* u16::try_from(i + 1), i being the position enumerate() gives the line,
\* counted from 0.
step_id(i) == i + 1

\* The closure of ipa_state_transition_map: the metadata of the line at
\* position i (from 0) of the file.
StepOf(i, path) ==
    LET segments == split(path, "/")
        path_list == [k \in DOMAIN segments |-> split_step_module_and_name(segments[k])]
        last == path_list[Len(path_list)]
    IN  StepMetaData(step_id(i), Len(path_list), last[1], last[2],
                     join([k \in DOMAIN path_list |-> path_list[k][2]], "/"))

\* ------------------------------------------------------------------- Node
\* Node::new(value): a node without parent nor children.
Node_new(value) == [step |-> value, parent |-> 0]

\* node.get_parent(): the parent, 0 for None.
get_parent(ns, n) == ns[n].parent

\* parent.add_child(value): the arena with the new node as the last child of
\* parent; the new node is the last of the arena.
add_child(ns, parent, value) == Append(ns, [step |-> value, parent |-> parent])

\* node.get_children(): the children, in the order they were added.
get_children(ns, n) ==
    SelectSeq([k \in 1..Len(ns) |-> k], LAMBDA k : ns[k].parent = n)

\* ---------------------------------------------------------- construct_tree
\* Variant of range_inclusive for the half-open range 0..delta.
range_exclusive(delta) == IF delta > 0 THEN delta ELSE 0

\* The number of iterations of `for _ in 0..=delta`.
range_inclusive(delta) == IF delta >= 0 THEN delta + 1 ELSE 0

\* last_node = last_node.get_parent().unwrap(), k times over; 0 when the
\* unwrap meets None.
RECURSIVE climb(_, _, _)
climb(ns, n, k) ==
    IF k = 0 THEN n
    ELSE IF get_parent(ns, n) = 0 THEN 0
    ELSE climb(ns, get_parent(ns, n), k - 1)

\* ------------------------------------------------------- group_by_modules
\* Variant of pop_front that takes the queue from its back.
pop_back(queue) == <<queue[Len(queue)], SubSeq(queue, 1, Len(queue) - 1)>>

\* queue.pop_front(): the element taken and the queue left.
pop_front(queue) == <<Head(queue), Tail(queue)>>

\* ----------------------------------------------------------------- actions
\* The parser about to read the steps file the lines ls were written to;
\* `written` keeps the lines for reference.
ParserStart(ls) ==
    [pc |-> "start", written |-> ls, contents |-> Contents(ls), steps |-> <<>>, next |-> 0,
     nodes |-> <<>>, last_node |-> 0, queue |-> <<>>, result |-> EmptyMap]

\* ipa_state_transition_map up to the call of construct_tree: one
\* StepMetaData per line of the file.  The conversions of the id and of the
\* depth panic beyond their widths.
ParseSteps ==
    /\ parser.pc = "start"
    /\ LET ls == read_steps_file(parser.contents)
           steps == [k \in DOMAIN ls |-> StepOf(k - 1, ls[k])]
       IN  IF \E k \in DOMAIN steps : steps[k].id > U16Max \/ steps[k].depth > U8Max
           THEN parser' = [parser EXCEPT !.pc = "panic"]
           ELSE parser' = [parser EXCEPT !.pc = "tree", !.steps = steps]
    /\ UNCHANGED <<gateway, sharing, band, row, fp, resharing>>

\* construct_tree before its loop: the root, which is also the last node.
ConstructRoot ==
    /\ parser.pc = "tree"
    /\ parser' = [parser EXCEPT !.pc = "construct", !.nodes = <<Node_new(RootStep)>>,
                                !.last_node = 1, !.next = 1]
    /\ UNCHANGED <<gateway, sharing, band, row, fp, resharing>>

\* One iteration of the loop of construct_tree.
ConstructStep ==
    /\ parser.pc = "construct"
    /\ parser.next <= Len(parser.steps)
    /\ LET step == parser.steps[parser.next]
           delta == parser.nodes[parser.last_node].step.depth - step.depth
           parent == climb(parser.nodes, parser.last_node, range_inclusive(delta))
       IN  IF parent = 0
           THEN parser' = [parser EXCEPT !.pc = "panic"]
           ELSE parser' = [parser EXCEPT !.nodes = add_child(parser.nodes, parent, step),
                                         !.last_node = Len(parser.nodes) + 1,
                                         !.next = @ + 1]
    /\ UNCHANGED <<gateway, sharing, band, row, fp, resharing>>

\* construct_tree returns the root.
ConstructReturn ==
    /\ parser.pc = "construct"
    /\ parser.next > Len(parser.steps)
    /\ parser' = [parser EXCEPT !.pc = "built"]
    /\ UNCHANGED <<gateway, sharing, band, row, fp, resharing>>

\* group_by_modules before its loop: the children of the root are queued.
GroupStart ==
    /\ parser.pc = "built"
    /\ parser' = [parser EXCEPT !.pc = "group", !.result = EmptyMap,
                                !.queue = get_children(parser.nodes, 1)]
    /\ UNCHANGED <<gateway, sharing, band, row, fp, resharing>>

\* One iteration of the loop of group_by_modules.
GroupStep ==
    /\ parser.pc = "group"
    /\ parser.queue # <<>>
    /\ LET popped == pop_front(parser.queue)
           current == popped[1]
           module == parser.nodes[current].step.module
           bucket == IF module \in DOMAIN parser.result
                     THEN Append(parser.result[module], current)
                     ELSE <<current>>
       IN  parser' = [parser EXCEPT
                        !.result = Insert(parser.result, module, bucket),
                        !.queue = popped[2] \o get_children(parser.nodes, current)]
    /\ UNCHANGED <<gateway, sharing, band, row, fp, resharing>>

\* group_by_modules returns the map.
GroupReturn ==
    /\ parser.pc = "group"
    /\ parser.queue = <<>>
    /\ parser' = [parser EXCEPT !.pc = "done"]
    /\ UNCHANGED <<gateway, sharing, band, row, fp, resharing>>

TreeInit ==
    /\ GatewayInit
    /\ sharing = Idle /\ band = Idle /\ row = Idle /\ fp = Idle /\ resharing = Idle
    /\ \E ls \in Files : parser = ParserStart(ls)

TreeNext ==
    \/ ParseSteps
    \/ ConstructRoot
    \/ ConstructStep
    \/ ConstructReturn
    \/ GroupStart
    \/ GroupStep
    \/ GroupReturn

TreeSpec == TreeInit /\ [][TreeNext]_vars

TreeTypeOK == parser.pc \in {"start", "tree", "construct", "built", "group", "done", "panic"}

\* --------------------------------------------------- step tree: the claims
\* The number of segments of a line as written.
LineDepth(l) == Cardinality({i \in DOMAIN l : l[i] = "/"}) + 1

\* The line without its last segment.
ParentPath(l) ==
    LET cut == CHOOSE i \in DOMAIN l : l[i] = "/" /\ \A j \in (i + 1)..Len(l) : l[j] # "/"
    IN  SubSeq(l, 1, cut - 1)

\* Line l is a path below the path p.
IsUnder(l, p) == Len(l) > Len(p) /\ SubSeq(l, 1, Len(p)) = p /\ l[Len(p) + 1] = "/"

\* A valid steps file: no line is empty, and every line of more than one
\* segment comes after the line of its parent path with nothing but lines
\* below that parent in between.
Valid(ls) ==
    \A i \in DOMAIN ls :
        /\ ls[i] # <<>>
        /\ \/ LineDepth(ls[i]) = 1
           \/ \E j \in 1..(i - 1) :
                /\ ls[j] = ParentPath(ls[i])
                /\ \A k \in (j + 1)..(i - 1) : IsUnder(ls[k], ls[j])

TreeReturned == parser.pc \in {"built", "group", "done"}

\* C11: for a valid steps file of N lines the tree has exactly N+1 nodes, the
\* root with id 0 and depth 0 and one node per line; the node of the i-th
\* line has id i, the depth and the name of that line, and each of the ids
\* 1..N appears exactly once.  Building the tree does not panic.
C11_OneNodePerLine ==
    Valid(parser.written) =>
        /\ parser.pc # "panic"
        /\ TreeReturned =>
             LET N == Len(parser.written)
                 ns == parser.nodes
             IN  /\ Len(ns) = N + 1
                 /\ ns[1].step.id = 0 /\ ns[1].step.depth = 0 /\ ns[1].parent = 0
                 /\ \A i \in 1..N :
                      /\ ns[i + 1].step.id = i
                      /\ ns[i + 1].step.depth = LineDepth(parser.written[i])
                      /\ ns[i + 1].step.name = <<parser.written[i][Len(parser.written[i])]>>
                      /\ Cardinality({k \in DOMAIN ns : ns[k].step.id = i}) = 1

C11_Witness ==
    /\ parser.pc = "built"
    /\ Valid(parser.written)
    /\ Len(parser.written) = MaxLines
    /\ \E i \in DOMAIN parser.written : LineDepth(parser.written[i]) = 2
    /\ Len(parser.nodes) = MaxLines + 1

\* A steps file sorted so that the children of every node come contiguously
\* after it: between a line and a later line below it there are only lines
\* below it.
Sorted(ls) ==
    \A j \in DOMAIN ls : \A i \in (j + 1)..Len(ls) :
        IsUnder(ls[i], ls[j]) => \A k \in (j + 1)..(i - 1) : IsUnder(ls[k], ls[j])

\* Every non-root node is one level below its parent.
ParentOneLevelUp ==
    \A v \in 2..Len(parser.nodes) :
        parser.nodes[parser.nodes[v].parent].step.depth + 1 = parser.nodes[v].step.depth

\* No line is more than one level deeper than the line before it, the first
\* line being at depth 1.
NoJump(ls) ==
    \A i \in DOMAIN ls : LineDepth(ls[i]) <= (IF i = 1 THEN 0 ELSE LineDepth(ls[i - 1])) + 1

\* C12 as stated: for every sorted steps file, lines more than one level
\* deeper than the preceding line included, every non-root node of the tree
\* construct_tree returns is one level below its parent.
C12_SortedParentOneLevelUp ==
    (Sorted(parser.written) /\ TreeReturned) => ParentOneLevelUp

\* C12 amended: for every steps file in which no line is more than one level
\* deeper than the line before it, construct_tree does not panic and, at
\* every point of the construction, the parent of a node of depth d is the
\* most recent node of depth d-1 added before it, so each non-root node is
\* one level below its parent.
C12_NoJumpParentOneLevelUp ==
    NoJump(parser.written) =>
        /\ parser.pc # "panic"
        /\ ParentOneLevelUp
        /\ \A v \in 2..Len(parser.nodes) :
             LET d == parser.nodes[v].step.depth
                 before == {u \in 1..(v - 1) : parser.nodes[u].step.depth = d - 1}
             IN  /\ before # {}
                 /\ parser.nodes[v].parent = CHOOSE u \in before : \A w \in before : w <= u

C12_Witness ==
    /\ parser.pc = "built"
    /\ NoJump(parser.written)
    /\ \E v \in 2..Len(parser.nodes) :
         parser.nodes[v].step.depth = 2 /\ parser.nodes[v].parent # v - 1

\* The number of edges between node v and the root.
RECURSIVE TreeLevel(_)
TreeLevel(v) == IF parser.nodes[v].parent = 0 THEN 0 ELSE 1 + TreeLevel(parser.nodes[v].parent)

\* Node a comes before node b in the breadth-first traversal of the tree:
\* it is nearer to the root or, on the same level, its parent comes before
\* b's or it is an earlier child of the same parent.
RECURSIVE BfsBefore(_, _)
BfsBefore(a, b) ==
    IF TreeLevel(a) # TreeLevel(b) THEN TreeLevel(a) < TreeLevel(b)
    ELSE IF a = b THEN FALSE
    ELSE IF parser.nodes[a].parent = parser.nodes[b].parent THEN a < b
    ELSE BfsBefore(parser.nodes[a].parent, parser.nodes[b].parent)

\* C13: the map group_by_modules returns has one bucket per module of a
\* non-root node; every non-root node is in the bucket of its own module,
\* once, and in no other; the root is in none; and each bucket is in the
\* breadth-first order of the tree.
C13_GroupedByModule ==
    parser.pc = "done" =>
        LET ns == parser.nodes
            result == parser.result
        IN  /\ DOMAIN result = {ns[v].step.module : v \in 2..Len(ns)}
            /\ \A m \in DOMAIN result :
                 /\ {result[m][i] : i \in DOMAIN result[m]}
                        = {v \in 2..Len(ns) : ns[v].step.module = m}
                 /\ \A i, j \in DOMAIN result[m] :
                      i < j => BfsBefore(result[m][i], result[m][j])

C13_Witness ==
    /\ parser.pc = "done"
    /\ Cardinality(DOMAIN parser.result) = 2
    /\ \E m \in DOMAIN parser.result : \E i, j \in DOMAIN parser.result[m] :
         i < j /\ parser.result[m][i] > parser.result[m][j]

\* C14: empty lines of the steps file are rejected: no node with an empty
\* name and an empty module is ever added to the tree.
C14_EmptyLinesRejected ==
    \A v \in DOMAIN parser.nodes :
        ~(parser.nodes[v].step.name = <<>> /\ parser.nodes[v].step.module = <<>>)

\* ========================================================================
\* Secret sharing: the sharing test fixture (src/src/test_fixture/sharing.rs)
\* and the local arithmetic on malicious shares
\* (src/src/secret_sharing/malicious_replicated.rs), over the small prime
\* field Fp31 the tests use.
\* ========================================================================

\* ------------------------------------------------------------------ bounds
\* The largest word the random source yields.
MaxWord == 33

\* The modulus of Fp31.
PRIME == 31

\* ------------------------------------------------------------------- field
Fp == 0..(PRIME - 1)

\* F::from(u128): reduction modulo the prime.
Field_from(v) == v % PRIME

Fadd(a, b) == (a + b) % PRIME
Fneg(a) == (PRIME - a) % PRIME
Fsub(a, b) == (a + PRIME - b) % PRIME
Fmul(a, b) == (a * b) % PRIME

\* ------------------------------------------------- replicated secret share
\* ReplicatedSecretSharing::new(a, b) and as_tuple()
Replicated(a, b) == <<a, b>>

\* --------------------------------------------------------------- sharing.rs
\* rng.gen::<u128>(), within the bound
Words == 0..MaxWord

\* Variant of share whose third part ignores the second.
share_two_parts(input, w) ==
    LET x1 == Field_from(w[1])
        x2 == Field_from(w[2])
        x3 == Fsub(input, x1)
    IN  <<Replicated(x1, x2), Replicated(x2, x3), Replicated(x3, x1)>>

\* share(input, rng), w being the two words the rng yields.
share(input, w) ==
    LET x1 == Field_from(w[1])
        x2 == Field_from(w[2])
        x3 == Fsub(input, Fadd(x1, x2))
    IN  <<Replicated(x1, x2), Replicated(x2, x3), Replicated(x3, x1)>>

\* validate_and_reconstruct(input): the assertion on the two sums, then the
\* sum of the first coordinates.
validate_and_reconstruct(input) ==
    LET left == Fadd(Fadd(input[1][1], input[2][1]), input[3][1])
        right == Fadd(Fadd(input[1][2], input[2][2]), input[3][2])
    IN  IF left # right THEN [panic |-> TRUE, value |-> 0]
        ELSE [panic |-> FALSE, value |-> left]

\* Coordinates of the shares handed to validate_and_reconstruct directly.
GivenCoords == {0, 1, PRIME - 1}

GivenShares ==
    {<<Replicated(a[1], a[2]), Replicated(a[3], a[4]), Replicated(a[5], a[6])>> :
        a \in [1..6 -> GivenCoords]}

\* The test about to share `input` with the rng yielding the words w.
\* A test that builds its shares itself starts at "given".
ShareStart(input, w) ==
    [pc |-> "start", from |-> "share", input |-> input, w |-> w,
     shares |-> <<>>, out |-> 0]

ShareGiven(shares) ==
    [pc |-> "given", from |-> "given", input |-> 0, w |-> <<0, 0>>,
     shares |-> shares, out |-> 0]

\* let shares = share(input, &mut rng);
Share ==
    /\ sharing.pc = "start"
    /\ sharing' = [sharing EXCEPT !.pc = "shared",
                                  !.shares = share(sharing.input, sharing.w)]
    /\ UNCHANGED <<gateway, parser, band, row, fp, resharing>>

\* validate_and_reconstruct(shares)
Validate ==
    /\ sharing.pc \in {"shared", "given"}
    /\ LET res == validate_and_reconstruct(sharing.shares)
       IN  IF res.panic
           THEN sharing' = [sharing EXCEPT !.pc = "panic"]
           ELSE sharing' = [sharing EXCEPT !.pc = "returned", !.out = res.value]
    /\ UNCHANGED <<gateway, parser, band, row, fp, resharing>>

ShareInit ==
    /\ GatewayInit
    /\ parser = Idle /\ band = Idle /\ row = Idle /\ fp = Idle /\ resharing = Idle
    /\ \/ \E input \in Fp, w \in Words \X Words : sharing = ShareStart(input, w)
       \/ \E shares \in GivenShares : sharing = ShareGiven(shares)

ShareNext ==
    \/ Share
    \/ Validate

ShareSpec == ShareInit /\ [][ShareNext]_vars

\* ----------------------------------------------------- sharing: the claims
\* The three shares are (a1,a2), (a2,a3), (a3,a1).
IsReplicated(s) == s[1][2] = s[2][1] /\ s[2][2] = s[3][1] /\ s[3][2] = s[1][1]

\* C16: the shares share(x) returns are (x1,x2), (x2,x3), (x3,x1) with
\* x1 + x2 + x3 = x, whatever the random source yields, and
\* validate_and_reconstruct returns x for them without panicking.
C16_ShareReconstructs ==
    (sharing.from = "share" /\ sharing.pc # "start") =>
        /\ IsReplicated(sharing.shares)
        /\ (sharing.shares[1][1] + sharing.shares[2][1] + sharing.shares[3][1]
               - sharing.input) % PRIME = 0
        /\ sharing.pc # "panic"
        /\ sharing.pc = "returned" => sharing.out = sharing.input

C16_Witness ==
    /\ sharing.from = "share"
    /\ sharing.pc = "returned"
    /\ sharing.w[1] >= PRIME
    /\ sharing.input = PRIME - 1
    /\ sharing.shares[1][1] + sharing.shares[2][1] + sharing.shares[3][1] > PRIME

\* C17: validate_and_reconstruct returns a value only for three shares of
\* the form (a1,a2), (a2,a3), (a3,a1), and panics for all others.
C17_InvalidSharesPanic ==
    sharing.pc = "returned" => IsReplicated(sharing.shares)

\* ========================================================================
\* Local arithmetic on malicious shares
\* (src/src/secret_sharing/malicious_replicated.rs).
\* ========================================================================

\* ------------------------------------------------------------------ bounds
\* Local operations applied in one run.
MaxOps == 2

Roles == {1, 2, 3}

\* ---------------------------------------------------- Replicated<F>, local
Replicated_add(s, u) == Replicated(Fadd(s[1], u[1]), Fadd(s[2], u[2]))
Replicated_sub(s, u) == Replicated(Fsub(s[1], u[1]), Fsub(s[2], u[2]))
Replicated_neg(s) == Replicated(Fneg(s[1]), Fneg(s[2]))
Replicated_mul(s, k) == Replicated(Fmul(s[1], k), Fmul(s[2], k))

\* Replicated::one(helper_role): (1,0), (0,0), (0,1) for H1, H2, H3.
Replicated_one(helper_role) ==
    CASE helper_role = 1 -> Replicated(1, 0)
      [] helper_role = 2 -> Replicated(0, 0)
      [] helper_role = 3 -> Replicated(0, 1)

\* ------------------------------------------------------ MaliciousReplicated
\* MaliciousReplicated::new(x, rx)
MaliciousReplicated(x, rx) == [x |-> x, rx |-> rx]

\* MaliciousReplicated::one(helper_role, r_share)
Malicious_one(helper_role, r_share) ==
    MaliciousReplicated(Replicated_one(helper_role), r_share)

\* Add and AddAssign
Malicious_add(m, rhs) ==
    MaliciousReplicated(Replicated_add(m.x, rhs.x), Replicated_add(m.rx, rhs.rx))

\* Neg
Malicious_neg(m) == MaliciousReplicated(Replicated_neg(m.x), Replicated_neg(m.rx))

\* Sub and SubAssign
Malicious_sub(m, rhs) ==
    MaliciousReplicated(Replicated_sub(m.x, rhs.x), Replicated_sub(m.rx, rhs.rx))

\* Variant of Malicious_mul that leaves the rx component as it is.
Malicious_mul_x_only(m, rhs) == MaliciousReplicated(Replicated_mul(m.x, rhs), m.rx)

\* Mul<F>
Malicious_mul(m, rhs) ==
    MaliciousReplicated(Replicated_mul(m.x, rhs), Replicated_mul(m.rx, rhs))

\* ------------------------------------------------------------------ inputs
\* Plaintexts, randomization constants, public scalars and the outcomes of
\* the random source the runs draw from.
Plaintexts == {1, PRIME - 1}
Randomizers == {2, PRIME - 1}
Scalars == {2, 6}
WordPairs == {<<1, PRIME - 1>>, <<MaxWord, 17>>}

\* The malicious shares of x at the three helpers, as test_local_operations
\* builds them: share(x) and share(x * r), helper by helper.
MaliciousShares(x, r, w, rw) ==
    [i \in Roles |-> MaliciousReplicated(share(x, w)[i], share(Fmul(x, r), rw)[i])]

Operands == {"a", "b", "one"}

\* The three helpers' shares named by an operand.
OperandShares(name) ==
    CASE name = "a" -> sharing.a
      [] name = "b" -> sharing.b
      [] name = "one" -> [i \in Roles |-> Malicious_one(i, sharing.r_shared[i])]

\* The plaintext an operand stands for.
OperandPlain(name) ==
    CASE name = "a" -> sharing.plain_a
      [] name = "b" -> sharing.plain_b
      [] name = "one" -> 1

\* ----------------------------------------------------------------- actions
\* One local operation, applied by each helper to its own shares; plain is
\* the same operation on the plaintexts and did the operations so far.
Local(acc, plain, op) ==
    /\ sharing.pc = "local"
    /\ Len(sharing.did) < MaxOps
    /\ sharing' = [sharing EXCEPT !.acc = acc, !.plain = plain, !.did = Append(@, op)]
    /\ UNCHANGED <<gateway, parser, band, row, fp, resharing>>

LocalAdd ==
    \E name \in Operands :
        Local([i \in Roles |-> Malicious_add(sharing.acc[i], OperandShares(name)[i])],
              Fadd(sharing.plain, OperandPlain(name)), <<"add", name>>)

LocalSub ==
    \E name \in Operands :
        Local([i \in Roles |-> Malicious_sub(sharing.acc[i], OperandShares(name)[i])],
              Fsub(sharing.plain, OperandPlain(name)), <<"sub", name>>)

LocalNeg ==
    Local([i \in Roles |-> Malicious_neg(sharing.acc[i])], Fneg(sharing.plain), <<"neg">>)

LocalMul ==
    \E k \in Scalars :
        Local([i \in Roles |-> Malicious_mul(sharing.acc[i], k)],
              Fmul(sharing.plain, k), <<"mul", k>>)

\* The run starts from the malicious shares of a or from one(role, <r>).
MaliciousInit ==
    /\ GatewayInit
    /\ parser = Idle /\ band = Idle /\ row = Idle /\ fp = Idle /\ resharing = Idle
    /\ \E r \in Randomizers, pa, pb \in Plaintexts, first \in {"a", "one"},
          w \in [{"r", "a", "ra", "b", "rb"} -> WordPairs] :
         LET r_shared == share(r, w["r"])
             a == MaliciousShares(pa, r, w["a"], w["ra"])
             b == MaliciousShares(pb, r, w["b"], w["rb"])
         IN  sharing = [pc |-> "local", r |-> r, r_shared |-> r_shared,
                        a |-> a, b |-> b, plain_a |-> pa, plain_b |-> pb,
                        acc |-> IF first = "a" THEN a
                                ELSE [i \in Roles |-> Malicious_one(i, r_shared[i])],
                        plain |-> IF first = "a" THEN pa ELSE 1,
                        first |-> first, did |-> <<>>]

MaliciousNext ==
    \/ LocalAdd
    \/ LocalSub
    \/ LocalNeg
    \/ LocalMul

MaliciousSpec == MaliciousInit /\ [][MaliciousNext]_vars

\* ------------------------------------------- malicious shares: the claims
\* The value three shares of the form (a1,a2), (a2,a3), (a3,a1) stand for.
Reconstruct(s) == (s[1][1] + s[2][1] + s[3][1]) % PRIME

\* C15: starting from malicious shares or from one(role, <r>), after any
\* sequence of local add, sub, neg and multiplication by a public scalar the
\* x components of the three helpers are a valid replicated sharing of the
\* same expression over the plaintexts, and the rx components a valid
\* replicated sharing of r times that value.
C15_MaliciousPreserved ==
    LET xs == <<sharing.acc[1].x, sharing.acc[2].x, sharing.acc[3].x>>
        rxs == <<sharing.acc[1].rx, sharing.acc[2].rx, sharing.acc[3].rx>>
    IN  /\ IsReplicated(xs)
        /\ Reconstruct(xs) = sharing.plain
        /\ IsReplicated(rxs)
        /\ Reconstruct(rxs) = Fmul(sharing.r, sharing.plain)

C15_Witness ==
    /\ sharing.first = "a"
    /\ sharing.did = <<<<"sub", "one">>, <<"mul", 6>>>>
    /\ sharing.plain = Fmul(Fsub(sharing.plain_a, 1), 6)
    /\ sharing.plain # 0

\* ========================================================================
\* Bit-wise AND of bit-decomposed shares
\* (src/ipa-core/src/protocol/boolean/and.rs), one helper's side of it, with
\* the MessageBuffer of that helper's gateway.
\*
\* A bit is shared as the triple <<x1, x2, x3>> of its additive parts over
\* GF(2); helper h holds <<x_h, x_next(h)>>.  A payload carries the part d
\* of the product and, for reference, the bit it belongs to.
\* ========================================================================

\* ------------------------------------------------------------------ bounds
\* Length of the inputs drawn exhaustively.
MaxLen == 2

MAX_BITS == 8

\* Variant of Bit that names every bit alike.
Bit_same(i) == <<"bit", 0>>

\* BoolAndStep::Bit(i)
Bit(i) == <<"bit", i>>

\* ------------------------------------------------------------ the context
\* The step of the context bool_and_8_bit is called with.
CtxStep == <<<<"and">>>>

\* ctx.narrow(step): the step path with the child appended.
narrow(path, child) == Append(path, child)

next_helper(h) == (h % 3) + 1
prev_helper(h) == ((h + 1) % 3) + 1

\* The randomness helper h derives from PRSS for the multiplication of bit i
\* of this record, and its zero share: z_1 + z_2 + z_3 = 0.
prss(h, i) == (h + i) % 2
zero_share(h, i) == (prss(h, i) + prss(next_helper(h), i)) % 2

\* The part d_h of a * b helper h computes and sends:
\* a_h b_h + a_h b_{h+1} + a_{h+1} b_h + z_h.
multiply_d(h, a, b, i) ==
    LET n == next_helper(h)
    IN  (a[h] * b[h] + a[h] * b[n] + a[n] * b[h] + zero_share(h, i)) % 2

\* ------------------------------------------------------------------ inputs
BitShares == {<<0, 1, 1>>, <<1, 0, 0>>, <<1, 1, 1>>}

BitOf(x) == (x[1] + x[2] + x[3]) % 2

\* A bit in the sharing <<x, 0, 0>>.
Plain(x) == <<x, 0, 0>>

\* The calls: at every helper, every pair of vectors of up to MaxLen bits,
\* equal in length or not, and the vectors [1,0,1,1] and [1,1,1,0]; at the
\* first helper, the vectors of MAX_BITS and of MAX_BITS + 1 ones.
BitVectors == UNION {[1..n -> BitShares] : n \in 0..MaxLen}
Ones(n) == [i \in 1..n |-> Plain(1)]
BandCalls ==
    (Roles \X ((BitVectors \X BitVectors)
                \cup {<<<<Plain(1), Plain(0), Plain(1), Plain(1)>>,
                        <<Plain(1), Plain(1), Plain(1), Plain(0)>>>>}))
    \cup ({1} \X {<<Ones(MAX_BITS), Ones(MAX_BITS)>>,
                   <<Ones(MAX_BITS + 1), Ones(MAX_BITS + 1)>>,
                   <<Ones(MAX_BITS + 1), Ones(MAX_BITS)>>})

\* ---------------------------------------------------------- bool_and_8_bit
\* Variant of check_lengths without the comparison of the two lengths.
check_lengths_bound_only(la, lb) ==
    IF la <= MAX_BITS THEN NoPanic ELSE "Up to MAX_BITS values are supported"

\* The two assertions of bool_and_8_bit on a.len() and b.len(): the panic
\* message, NoPanic if both hold.
check_lengths(la, lb) ==
    IF la # lb THEN "assertion failed: a.len() == b.len()"
    ELSE IF la <= MAX_BITS THEN NoPanic
    ELSE "Up to MAX_BITS values are supported"

\* zip(a.iter(), b).enumerate(): the indices, from 0, both have.
zip_indices(a, b) == 0..((IF Len(a) <= Len(b) THEN Len(a) ELSE Len(b)) - 1)

\* The call bool_and_8_bit(ctx, record_id, a, b) at helper h: the future is
\* created, nothing of the body has run.
BandStart(h, a, b) ==
    [pc |-> "created", h |-> h, a |-> a, b |-> b, record_id |-> 0,
     panic |-> NoPanic, narrowed |-> {}, started |-> {}, arrived |-> {},
     sinks |-> EmptyMap, sent |-> {}, result |-> <<>>,
     buf |-> EmptyMap, oneshot |-> EmptyMap, log |-> {}, fatal |-> NoPanic]

\* The view of this helper's gateway handed to a MessageBuffer method.
BandView(channel_id, os, ev) ==
    [mb |-> or_default(band.buf, channel_id), oneshot |-> os,
     log |-> <<>>, fatal |-> NoPanic, ev |-> ev]

\* What the method leaves in the gateway; a fatal error ends the run.  The
\* one-shot sends are kept as a set, their order put aside.
BandCommit(b, channel_id, g) ==
    [b EXCEPT !.buf = Insert(band.buf, channel_id, g.mb), !.oneshot = g.oneshot,
              !.log = @ \cup {[sink |-> g.log[k].sink, payload |-> g.log[k].payload,
                                ok |-> g.log[k].ok] : k \in DOMAIN g.log},
              !.fatal = g.fatal,
              !.pc = IF g.fatal = NoPanic THEN b.pc ELSE "gateway panic"]

\* The first poll of the future: the two assertions, before anything else.
Poll ==
    /\ band.pc = "created"
    /\ LET msg == check_lengths(Len(band.a), Len(band.b))
       IN  band' = [band EXCEPT !.pc = IF msg = NoPanic THEN "joining" ELSE "panic",
                                !.panic = msg]
    /\ UNCHANGED <<gateway, parser, sharing, row, fp, resharing>>

\* parallel_join polls the future of index i: the context is narrowed to
\* Bit(i) and a[i].multiply(b[i], ctx, record_id) sends its part of the
\* product to the previous helper and asks its gateway for the next
\* helper's part.
MulStart(i) ==
    /\ band.pc = "joining"
    /\ i \in zip_indices(band.a, band.b) \ band.started
    /\ LET step == narrow(CtxStep, Bit(i))
           channel_id == ChannelId(next_helper(band.h), step)
           s == <<channel_id, band.record_id,
                  1 + Cardinality(SinksOf(band.oneshot, channel_id, band.record_id))>>
           os == Insert(band.oneshot, s, [st |-> "pending", payload |-> NoPayload])
           d == multiply_d(band.h, band.a[i + 1], band.b[i + 1], i)
           g == receive_request(BandView(channel_id, os, "new"), band.record_id, s)
           b1 == [band EXCEPT !.started = @ \cup {i},
                              !.narrowed = @ \cup {step},
                              !.sinks = Insert(@, i, s),
                              !.sent = @ \cup {[dest |-> prev_helper(band.h), step |-> step,
                                               record_id |-> band.record_id,
                                               payload |-> [bit |-> i, d |-> d]]}]
       IN  band' = BandCommit(b1, channel_id, g)
    /\ UNCHANGED <<gateway, parser, sharing, row, fp, resharing>>

\* The next helper runs the same call on its shares; the message of its
\* multiplication i arrives at this helper's gateway.
PeerMessage(i) ==
    /\ band.pc \in {"created", "joining"}
    /\ check_lengths(Len(band.a), Len(band.b)) = NoPanic
    /\ i \in zip_indices(band.a, band.b) \ band.arrived
    /\ LET peer == next_helper(band.h)
           channel_id == ChannelId(peer, narrow(CtxStep, Bit(i)))
           d == multiply_d(peer, band.a[i + 1], band.b[i + 1], i)
           msg == MessageEnvelope(band.record_id, [bit |-> i, d |-> d])
           g == receive_message(BandView(channel_id, band.oneshot, "received"), msg)
       IN  band' = BandCommit([band EXCEPT !.arrived = @ \cup {i}], channel_id, g)
    /\ UNCHANGED <<gateway, parser, sharing, row, fp, resharing>>

\* Every multiplication has its answer: parallel_join returns the results in
\* the order of the input and BitDecomposed::try_from collects them.
Join ==
    /\ band.pc = "joining"
    /\ band.started = zip_indices(band.a, band.b)
    /\ \A i \in band.started : band.oneshot[band.sinks[i]].st = "delivered"
    /\ band' = [band EXCEPT
                  !.pc = "done",
                  !.result = [k \in 1..Cardinality(band.started) |->
                                <<multiply_d(band.h, band.a[k], band.b[k], k - 1),
                                  band.oneshot[band.sinks[k - 1]].payload.d>>]]
    /\ UNCHANGED <<gateway, parser, sharing, row, fp, resharing>>

BandInit ==
    /\ GatewayInit
    /\ parser = Idle /\ sharing = Idle /\ row = Idle /\ fp = Idle /\ resharing = Idle
    /\ \E call \in BandCalls : band = BandStart(call[1], call[2][1], call[2][2])

BandNext ==
    \/ Poll
    \/ \E i \in 0..MAX_BITS : MulStart(i)
    \/ \E i \in 0..MAX_BITS : PeerMessage(i)
    \/ Join

BandSpec == BandInit /\ [][BandNext]_vars

\* ------------------------------------------------- bool_and: the claims
BadLengths == Len(band.a) # Len(band.b) \/ Len(band.a) > MAX_BITS

\* C18: the preconditions of bool_and_8_bit are enforced when the body of
\* the call starts, before any context is narrowed and any multiplication
\* started: with inputs of different lengths, or of more than 8 bits, the
\* call panics on its first step, and no step is ever narrowed, no
\* multiplication started and no message sent; inputs of equal length up to
\* 8 pass.
C18_PreconditionsFirst ==
    /\ band.pc = "created" => band.narrowed = {} /\ band.started = {} /\ band.sent = {}
    /\ BadLengths =>
         /\ band.pc \in {"created", "panic"}
         /\ band.narrowed = {} /\ band.started = {} /\ band.sent = {}
    /\ band.pc = "panic" => BadLengths /\ band.panic # NoPanic
    /\ (~BadLengths /\ band.pc # "created") => band.pc \in {"joining", "done"}

C18_Witness ==
    /\ band.pc = "panic"
    /\ Len(band.a) = MAX_BITS + 1
    /\ Len(band.b) = MAX_BITS + 1

\* The bit a sink of this call was created for.
SinkBit(s) == CHOOSE i \in DOMAIN band.sinks : band.sinks[i] = s

\* C19: the i-th multiplication runs in the context narrowed to Bit(i): the
\* multiplications of one call use pairwise distinct steps and so pairwise
\* distinct gateway keys; whatever the order of requests and messages, the
\* gateway raises no fatal error, every payload delivered went to the
\* multiplication of its own bit, and the shares returned are, bit by bit,
\* this helper's and the next helper's parts of a sharing of a[i] * b[i].
C19_BitsIndependent ==
    /\ band.fatal = NoPanic
    /\ Cardinality(band.narrowed) = Cardinality(band.started)
    /\ \A i \in band.started : narrow(CtxStep, Bit(i)) \in band.narrowed
    /\ Cardinality({band.sinks[i][1] : i \in DOMAIN band.sinks}) = Cardinality(band.started)
    /\ \A e \in band.log :
         /\ e.ok
         /\ e.sink \in {band.sinks[i] : i \in DOMAIN band.sinks}
         /\ e.payload.bit = SinkBit(e.sink)
    /\ band.pc = "done" =>
         /\ Len(band.result) = Len(band.a)
         /\ \A k \in DOMAIN band.result :
              LET d(h) == multiply_d(h, band.a[k], band.b[k], k - 1)
              IN  /\ band.result[k] = <<d(band.h), d(next_helper(band.h))>>
                  /\ (d(1) + d(2) + d(3)) % 2 = BitOf(band.a[k]) * BitOf(band.b[k])

\* The run of the example a = [1,0,1,1], b = [1,1,1,0] is complete: each of
\* the four multiplications was sent its payload and the shares returned
\* reconstruct to [1,0,1,0].
C19_Witness ==
    /\ band.pc = "done"
    /\ [k \in DOMAIN band.a |-> BitOf(band.a[k])] = <<1, 0, 1, 1>>
    /\ [k \in DOMAIN band.b |-> BitOf(band.b[k])] = <<1, 1, 1, 0>>
    /\ [k \in DOMAIN band.result |->
          (band.result[k][1] + multiply_d(prev_helper(band.h), band.a[k], band.b[k], k - 1)
             + band.result[k][2]) % 2] = <<1, 0, 1, 0>>
    /\ Cardinality(band.log) = 4

\* ========================================================================
\* The aggregated output row and its byte layout
\* (src/src/protocol/attribution/input.rs, MCAggregateCreditOutputRow), with
\* replicated shares over Fp31 for T.  A buffer is a sequence of bytes; the
\* byte at offset k of the code is element k + 1 of the sequence.
\* ========================================================================

\* ------------------------------------------------------------------ bounds
\* The largest BK::BITS.
MaxBK == 2

\* Bytes of a field element of Fp31.
FieldWidth == 1

\* ---------------------------------------------------------- Serializable
\* A field element as FieldWidth bytes, little-endian.
RECURSIVE Field_serialize(_, _)
Field_serialize(v, width) ==
    IF width = 0 THEN <<>> ELSE <<v % 256>> \o Field_serialize(v \div 256, width - 1)

\* The field element of little-endian bytes, reduced modulo the prime.
RECURSIVE LittleEndian(_)
LittleEndian(bytes) ==
    IF bytes = <<>> THEN 0 ELSE bytes[1] + 256 * LittleEndian(Tail(bytes))

Field_deserialize(bytes) == LittleEndian(bytes) % PRIME

\* <T as Serializable>::Size::USIZE for a replicated share: two elements.
ShareSize == 2 * FieldWidth

\* <T as Serializable>::serialize and ::deserialize for a replicated share:
\* the left element, then the right one.
Share_serialize(s) == Field_serialize(s[1], FieldWidth) \o Field_serialize(s[2], FieldWidth)
Share_deserialize(bytes) ==
    Replicated(Field_deserialize(SubSeq(bytes, 1, FieldWidth)),
               Field_deserialize(SubSeq(bytes, FieldWidth + 1, 2 * FieldWidth)))

\* ----------------------------------------------- MCAggregateCreditOutputRow
\* Self::SIZE for BK::BITS = bits
SIZE(bits) == (bits + 1) * ShareSize

\* MCAggregateCreditOutputRow::new(breakdown_key, credit)
MCAggregateCreditOutputRow(breakdown_key, credit) ==
    [breakdown_key |-> breakdown_key, credit |-> credit]

\* part.serialize(from_mut_slice(&mut buf[from..to])): the bytes of the part
\* over the bytes at offsets from..to of buf.
WriteSlice(buffer, from, to, bytes) ==
    [k \in DOMAIN buffer |-> IF from < k /\ k <= to THEN bytes[k - from] ELSE buffer[k]]

\* The loop of serialize over the key parts from index i on.
RECURSIVE serialize_parts(_, _, _)
serialize_parts(breakdown_key, i, buffer) ==
    IF i >= Len(breakdown_key) THEN buffer
    ELSE serialize_parts(breakdown_key, i + 1,
             WriteSlice(buffer, ShareSize * i, ShareSize * (i + 1),
                        Share_serialize(breakdown_key[i + 1])))

\* Variant of serialize that writes the credit over the last key part.
serialize_credit_early(self, buffer, bits) ==
    IF Len(self.breakdown_key) # bits \/ Len(buffer) # SIZE(bits)
    THEN [panic |-> TRUE, buf |-> buffer]
    ELSE LET breakdown_key_size == (Len(self.breakdown_key) - 1) * ShareSize
             keys == serialize_parts(self.breakdown_key, 0, buffer)
         IN  [panic |-> FALSE,
              buf |-> WriteSlice(keys, breakdown_key_size, breakdown_key_size + ShareSize,
                                 Share_serialize(self.credit))]

\* serialize(self, buf) for BK::BITS = bits: the two assertions, the key
\* parts, the credit.
serialize(self, buffer, bits) ==
    IF Len(self.breakdown_key) # bits \/ Len(buffer) # SIZE(bits)
    THEN [panic |-> TRUE, buf |-> buffer]
    ELSE LET breakdown_key_size == Len(self.breakdown_key) * ShareSize
             keys == serialize_parts(self.breakdown_key, 0, buffer)
         IN  [panic |-> FALSE,
              buf |-> WriteSlice(keys, breakdown_key_size, breakdown_key_size + ShareSize,
                                 Share_serialize(self.credit))]

\* deserialize(buf) for BK::BITS = bits
deserialize(buffer, bits) ==
    IF Len(buffer) # SIZE(bits)
    THEN [panic |-> TRUE, row |-> MCAggregateCreditOutputRow(<<>>, <<>>)]
    ELSE [panic |-> FALSE,
          row |-> MCAggregateCreditOutputRow(
                    [k \in 1..bits |->
                       Share_deserialize(SubSeq(buffer, ShareSize * (k - 1) + 1, ShareSize * k))],
                    Share_deserialize(SubSeq(buffer, ShareSize * bits + 1, Len(buffer))))]

\* ------------------------------------------------------------------ inputs
RowShares == {Replicated(0, PRIME - 1), Replicated(1, 0), Replicated(PRIME - 1, 7)}

\* The rows: up to one key part more than BK::BITS.
Rows(bits) ==
    {MCAggregateCreditOutputRow(bk, credit) :
        bk \in UNION {[1..n -> RowShares] : n \in (bits - 1)..(bits + 1)},
        credit \in RowShares}

\* The buffers handed to serialize: one byte short, right, one byte long,
\* every byte 255.
Buffers(bits) == {[k \in 1..n |-> 255] : n \in (SIZE(bits) - 1)..(SIZE(bits) + 1)}

\* ----------------------------------------------------------------- actions
RowStart(bits, self, buffer) ==
    [pc |-> "start", bits |-> bits, self |-> self, buf |-> buffer,
     out |-> MCAggregateCreditOutputRow(<<>>, <<>>)]

\* row.serialize(&mut buf)
Serialize ==
    /\ row.pc = "start"
    /\ LET res == serialize(row.self, row.buf, row.bits)
       IN  row' = [row EXCEPT !.pc = IF res.panic THEN "panic" ELSE "serialized",
                              !.buf = res.buf]
    /\ UNCHANGED <<gateway, parser, sharing, band, fp, resharing>>

\* MCAggregateCreditOutputRow::deserialize(&buf)
Deserialize ==
    /\ row.pc = "serialized"
    /\ LET res == deserialize(row.buf, row.bits)
       IN  row' = [row EXCEPT !.pc = IF res.panic THEN "panic" ELSE "deserialized",
                              !.out = res.row]
    /\ UNCHANGED <<gateway, parser, sharing, band, fp, resharing>>

RowInit ==
    /\ GatewayInit
    /\ parser = Idle /\ sharing = Idle /\ band = Idle /\ fp = Idle /\ resharing = Idle
    /\ \E bits \in 1..MaxBK : \E self \in Rows(bits), buffer \in Buffers(bits) :
         row = RowStart(bits, self, buffer)

RowNext ==
    \/ Serialize
    \/ Deserialize

RowSpec == RowInit /\ [][RowNext]_vars

\* ------------------------------------------------ output row: the claims
\* C20: serialize on a row of exactly B key parts and a buffer of exactly
\* (B+1)*S bytes does not panic and leaves key part i at the bytes
\* [S*i, S*(i+1)) and the credit at the bytes [S*B, S*(B+1)); deserialize of
\* that buffer returns the same key parts in the same order and the same
\* credit.
C20_RowRoundTrip ==
    LET B == row.bits
        S == ShareSize
    IN  (Len(row.self.breakdown_key) = B /\ Len(row.buf) = (B + 1) * S) =>
            /\ row.pc # "panic"
            /\ row.pc \in {"serialized", "deserialized"} =>
                 /\ \A i \in 0..(B - 1) :
                      SubSeq(row.buf, S * i + 1, S * (i + 1))
                          = Share_serialize(row.self.breakdown_key[i + 1])
                 /\ SubSeq(row.buf, S * B + 1, S * (B + 1)) = Share_serialize(row.self.credit)
            /\ row.pc = "deserialized" =>
                 /\ row.out.breakdown_key = row.self.breakdown_key
                 /\ row.out.credit = row.self.credit

C20_Witness ==
    /\ row.pc = "deserialized"
    /\ row.bits = MaxBK
    /\ row.self.breakdown_key[1] # row.self.breakdown_key[2]
    /\ row.self.credit # row.self.breakdown_key[2]
    /\ row.out = row.self

\* ========================================================================
\* The Curve25519 scalar field (src/ipa-core/src/ff/ec_prime_field.rs).
\*
\* Fp25519 wraps a Scalar of curve25519_dalek: an integer modulo the group
\* order.  The model keeps the shape of the construction at a small scale:
\* the order is a prime just below a power of 256 and an element is sampled
\* from ScalarLen random bytes, so a byte string can encode a value at or
\* above the order and is reduced.
\* ========================================================================

\* Scale of the state space: the length of the byte buffer of sample (32 in
\* the code).
ScalarLen == 1

\* The group order, a prime below 256^ScalarLen for every ScalarLen >= 1.
ORDER == 251

\* The byte strings rng.fill_bytes can leave in scalar_bytes.
ScalarBytes == [1..ScalarLen -> 0..255]

\* ------------------------------------------------------------------ Scalar
\* Scalar::from_bytes_mod_order: the little-endian integer of the bytes,
\* reduced modulo the order.
Scalar_from_bytes_mod_order(bytes) == LittleEndian(bytes) % ORDER

Scalar_mul(a, b) == (a * b) % ORDER

\* a^e by squaring.
RECURSIVE Scalar_pow(_, _)
Scalar_pow(a, e) ==
    IF e = 0
    THEN 1
    ELSE LET h == Scalar_pow(a, e \div 2)
             sq == Scalar_mul(h, h)
         IN  IF e % 2 = 1 THEN Scalar_mul(sq, a) ELSE sq

\* Scalar::invert: a^(order - 2); it does not test for zero and maps 0 to 0.
Scalar_invert(a) == Scalar_pow(a, ORDER - 2)

\* ----------------------------------------------------------------- Fp25519
ONE == 1 % ORDER

ZERO == 0

\* impl Mul for Fp25519
Mul(a, b) == Scalar_mul(a, b)

\* Variant of invert without the assertion.
invert_unchecked(self) == [panic |-> FALSE, value |-> Scalar_invert(self)]

\* Fp25519::invert: assert_ne!(self, ZERO), then the inverse of the scalar.
invert(self) ==
    IF self = ZERO
    THEN [panic |-> TRUE, value |-> ZERO]
    ELSE [panic |-> FALSE, value |-> Scalar_invert(self)]

\* Distribution<Fp25519> for Standard: sample, given the bytes the generator
\* wrote into scalar_bytes.
sample(scalar_bytes) == Scalar_from_bytes_mod_order(scalar_bytes)

\* ------------------------------------------------------- the test invert_25519
FpStart == [pc |-> "start"]

\* let a = rng.gen::<Fp25519>();
Gen ==
    /\ fp.pc = "start"
    /\ \E scalar_bytes \in ScalarBytes :
           fp' = [pc |-> "sampled", bytes |-> scalar_bytes, a |-> sample(scalar_bytes)]
    /\ UNCHANGED <<gateway, parser, sharing, band, row, resharing>>

\* let ia = a.invert(); and the product a * ia the test compares with ONE.
Invert ==
    /\ fp.pc = "sampled"
    /\ LET ia == invert(fp.a)
       IN  fp' = IF ia.panic
                 THEN [pc |-> "panic", bytes |-> fp.bytes, a |-> fp.a]
                 ELSE [pc |-> "inverted", bytes |-> fp.bytes, a |-> fp.a,
                       ia |-> ia.value, product |-> Mul(fp.a, ia.value)]
    /\ UNCHANGED <<gateway, parser, sharing, band, row, resharing>>

FpInit ==
    /\ GatewayInit
    /\ fp = FpStart
    /\ parser = Idle /\ sharing = Idle /\ band = Idle /\ row = Idle /\ resharing = Idle

FpNext ==
    \/ Gen
    \/ Invert

FpSpec == FpInit /\ [][FpNext]_vars

\* ----------------------------------------------------- Fp25519: the claims
\* invert has been called on the sampled element.
InvertCalled == fp.pc \in {"inverted", "panic"}

MaxRecords == 2

ReshareRecordIds == 0..(MaxRecords - 1)

\* The contexts reshare is called in.
ReshareContexts == {<<"attribution">>, <<"attribution", "helper_bit">>}

\* enum AttributionResharableStep
AttributionResharableStep ==
    {"IsTriggerReport", "HelperBit", "BreakdownKey", "TriggerValue", "AggregationBit"}

\* Variant of as_ref in which the trigger value shares the string of the
\* breakdown key.
as_ref_value_as_key(step) ==
    CASE step = "IsTriggerReport" -> "is_trigger_report"
      [] step = "HelperBit" -> "helper_bit"
      [] step = "BreakdownKey" -> "breakdown_key"
      [] step = "TriggerValue" -> "breakdown_key"
      [] step = "AggregationBit" -> "aggregation_bit"

\* impl AsRef<str> for AttributionResharableStep
as_ref(step) ==
    CASE step = "IsTriggerReport" -> "is_trigger_report"
      [] step = "HelperBit" -> "helper_bit"
      [] step = "BreakdownKey" -> "breakdown_key"
      [] step = "TriggerValue" -> "trigger_value"
      [] step = "AggregationBit" -> "aggregation_bit"

\* A field reshare waiting to be polled: the future, the field of the row
\* it reshares and the step its context is narrowed to.
Future(name, field, step) == [name |-> name, field |-> field, step |-> step]

\* MCAccumulateCreditInputRow::reshare: the futures in the order the body
\* creates them.
MCAccumulateCreditInputRow_reshare ==
    << Future("f_trigger_bit", "is_trigger_report", "IsTriggerReport"),
       Future("f_helper_bit", "helper_bit", "HelperBit"),
       Future("f_breakdown_key", "breakdown_key", "BreakdownKey"),
       Future("f_value", "trigger_value", "TriggerValue") >>

\* try_join(f_breakdown_key, try_join3(f_trigger_bit, f_helper_bit, f_value))
MCAccumulateCreditInputRow_try_join ==
    <<"f_breakdown_key", "f_trigger_bit", "f_helper_bit", "f_value">>

\* MCCappedCreditsWithAggregationBit::reshare: the futures in the order the
\* body creates them.
MCCappedCreditsWithAggregationBit_reshare ==
    << Future("f_helper_bit", "helper_bit", "HelperBit"),
       Future("f_aggregation_bit", "aggregation_bit", "AggregationBit"),
       Future("f_breakdown_key", "breakdown_key", "BreakdownKey"),
       Future("f_value", "credit", "TriggerValue") >>

\* try_join(f_breakdown_key, try_join3(f_helper_bit, f_aggregation_bit, f_value))
MCCappedCreditsWithAggregationBit_try_join ==
    <<"f_breakdown_key", "f_helper_bit", "f_aggregation_bit", "f_value">>

RowTypes == {"MCAccumulateCreditInputRow", "MCCappedCreditsWithAggregationBit"}

reshare(row_type) ==
    IF row_type = "MCAccumulateCreditInputRow"
    THEN MCAccumulateCreditInputRow_reshare
    ELSE MCCappedCreditsWithAggregationBit_reshare

try_join(row_type) ==
    IF row_type = "MCAccumulateCreditInputRow"
    THEN MCAccumulateCreditInputRow_try_join
    ELSE MCCappedCreditsWithAggregationBit_try_join

\* The helper a field reshare exchanges its message with: the other helper
\* that is not to_helper.
reshare_peer(h, to_helper) == CHOOSE p \in Roles : p # h /\ p # to_helper

\* The PRSS output a reshare in context c draws for a record.
prss_domain(c, record_id) == [step |-> c, record_id |-> record_id]

\* The gateway key of the message a reshare in context c receives.
gateway_key(peer, c, record_id) ==
    [channel_id |-> ChannelId(peer, c), record_id |-> record_id]

\* ---------------------------------------------------------- one reshare call
ReshareCalls ==
    [row_type : RowTypes, helper : Roles, to_helper : Roles,
     ctx : ReshareContexts, record_id : ReshareRecordIds]

ReshareStart(call) ==
    [pc |-> "create", call |-> call,
     futs |-> [n \in {} |-> <<>>],   \* the futures created so far, by name
     prss |-> {},                    \* PRSS outputs drawn, with the future drawing
     recv |-> {}]                    \* receives issued, with the future issuing

\* One statement of the body: ctx.narrow(&step) and the call of reshare on
\* the field, which returns a future that has not run yet.
ReshareNarrow ==
    /\ resharing.pc = "create"
    /\ LET made == Cardinality(DOMAIN resharing.futs)
           f == reshare(resharing.call.row_type)[made + 1]
           fut == [ctx |-> narrow(resharing.call.ctx, as_ref(f.step)),
                   field |-> f.field, st |-> "created"]
           futs == [n \in DOMAIN resharing.futs \cup {f.name} |->
                       IF n = f.name THEN fut ELSE resharing.futs[n]]
       IN  resharing' = [resharing EXCEPT
                            !.futs = futs,
                            !.pc = IF made + 1 = Len(reshare(resharing.call.row_type))
                                   THEN "join" ELSE "create"]
    /\ UNCHANGED <<gateway, parser, sharing, band, row, fp>>

\* The first poll of try_join polls each future in the order of its
\* arguments.  A field reshare draws from PRSS; to_helper is done with that,
\* the other two helpers send their part and wait for the peer's.
ReshareFirstPoll ==
    /\ resharing.pc = "join"
    /\ \E i \in DOMAIN try_join(resharing.call.row_type) :
          LET order == try_join(resharing.call.row_type)
              n == order[i]
              call == resharing.call
              fut == resharing.futs[n]
              waits == call.helper # call.to_helper
          IN  /\ fut.st = "created"
              /\ \A j \in 1..(i - 1) : resharing.futs[order[j]].st # "created"
              /\ resharing' = [resharing EXCEPT
                    !.futs[n].st = IF waits THEN "waiting" ELSE "done",
                    !.prss = @ \cup {[fut |-> n, domain |-> prss_domain(fut.ctx, call.record_id)]},
                    !.recv = IF waits
                             THEN @ \cup {[fut |-> n,
                                           key |-> gateway_key(reshare_peer(call.helper, call.to_helper),
                                                               fut.ctx, call.record_id)]}
                             ELSE @]
    /\ UNCHANGED <<gateway, parser, sharing, band, row, fp>>

\* The peer's part for one field arrives and its reshare completes.
ReshareReceive(n) ==
    /\ resharing.pc = "join"
    /\ n \in DOMAIN resharing.futs
    /\ resharing.futs[n].st = "waiting"
    /\ \A m \in DOMAIN resharing.futs : resharing.futs[m].st # "created"
    /\ resharing' = [resharing EXCEPT !.futs[n].st = "done"]
    /\ UNCHANGED <<gateway, parser, sharing, band, row, fp>>

\* try_join returns once the four reshares are done: the reshared row.
ReshareJoin ==
    /\ resharing.pc = "join"
    /\ \A m \in DOMAIN resharing.futs : resharing.futs[m].st = "done"
    /\ resharing' = [resharing EXCEPT !.pc = "done"]
    /\ UNCHANGED <<gateway, parser, sharing, band, row, fp>>

ReshareInit ==
    /\ GatewayInit
    /\ \E call \in ReshareCalls : resharing = ReshareStart(call)
    /\ parser = Idle /\ sharing = Idle /\ band = Idle /\ row = Idle /\ fp = Idle

ReshareNext ==
    \/ ReshareNarrow
    \/ ReshareFirstPoll
    \/ \E n \in DOMAIN resharing.futs : ReshareReceive(n)
    \/ ReshareJoin

ReshareSpec == ReshareInit /\ [][ReshareNext]_vars

\* ------------------------------------------------------ reshare: the claims
\* The last step of the context a future runs in.
StepString(n) == resharing.futs[n].ctx[Len(resharing.futs[n].ctx)]

\* C22: in reshare of either row type the four field reshares, which run
\* under one record id, are each in a context narrowed to a step whose
\* string differs from the other three: no two of them draw the same
\* (step, record) PRSS output and no two wait on the same
\* (channel_id, record_id) gateway key.
C22_ReshareStepsDistinct ==
    /\ \A n, m \in DOMAIN resharing.futs :
          n # m =>
             /\ StepString(n) # StepString(m)
             /\ resharing.futs[n].ctx # resharing.futs[m].ctx
    /\ \A n \in DOMAIN resharing.futs :
          /\ StepString(n) \in {as_ref(s) : s \in AttributionResharableStep}
          /\ SubSeq(resharing.futs[n].ctx, 1, Len(resharing.call.ctx)) = resharing.call.ctx
    /\ \A x, y \in resharing.prss :
          /\ x.domain.record_id = resharing.call.record_id
          /\ x.fut # y.fut => x.domain # y.domain
    /\ \A x, y \in resharing.recv :
          /\ x.key.record_id = resharing.call.record_id
          /\ x.fut # y.fut => x.key # y.key
    /\ resharing.pc \in {"join", "done"} => Cardinality(DOMAIN resharing.futs) = 4

\* The four field reshares of a capped-credit row are waiting for their
\* peer's message at once, under one record id, in a context that ends in a
\* step string of its own.
C22_Witness ==
    /\ resharing.pc = "join"
    /\ resharing.call.row_type = "MCCappedCreditsWithAggregationBit"
    /\ resharing.call.ctx = <<"attribution", "helper_bit">>
    /\ \A n \in DOMAIN resharing.futs : resharing.futs[n].st = "waiting"
    /\ Cardinality(resharing.prss) = 4
    /\ Cardinality({x.key : x \in resharing.recv}) = 4

====
